---- MODULE Spec2Model ----
(***************************************************************************)
(* Elemental: the Mehrotra predictor-corrector driver for linear programs  *)
(* in primal conic form (lp::primal::Mehrotra), in its four storage        *)
(* variants.  A call is modelled at the level of the processes that run it *)
(* (one process for the sequential variants), each process stepping        *)
(* through the stages of the loop body; the collective operations of the   *)
(* distributed variants are the points where a process waits for the       *)
(* others.  Real numbers are exact rationals <<num, den>>, den > 0, in     *)
(* lowest terms.                                                           *)
(***************************************************************************)
EXTENDS Integers, Sequences, FiniteSets, TLC

(***************************************************************************)
(* Real arithmetic                                                         *)
(***************************************************************************)
Abs(a) == IF a < 0 THEN -a ELSE a

RECURSIVE GCD(_, _)
GCD(a, b) == IF b = 0 THEN a ELSE GCD(b, a % b)

\* the rational n/d (d # 0) in lowest terms with a positive denominator
Rat(n, d) ==
    LET s == IF d < 0 THEN -1 ELSE 1
        g == GCD(Abs(n), Abs(d))
    IN  <<(s * n) \div g, (s * d) \div g>>

Real(k) == <<k, 1>>

\* the sum over the least common denominator
RAdd(p, q) ==
    LET g == GCD(p[2], q[2])
    IN  Rat(p[1] * (q[2] \div g) + q[1] * (p[2] \div g), (p[2] \div g) * q[2])

RNeg(p) == <<-p[1], p[2]>>

RSub(p, q) == RAdd(p, RNeg(q))

\* the product, with the common factors taken out first
RMul(p, q) ==
    LET g == GCD(Abs(p[1]), q[2])
        h == GCD(Abs(q[1]), p[2])
    IN  IF p[1] = 0 \/ q[1] = 0 THEN <<0, 1>>
        ELSE <<(p[1] \div g) * (q[1] \div h), (p[2] \div h) * (q[2] \div g)>>

RDiv(p, q) == RMul(p, Rat(q[2], q[1]))

RAbs(p) == <<Abs(p[1]), p[2]>>

RLt(p, q) ==
    LET g == GCD(p[2], q[2])
    IN  p[1] * (q[2] \div g) < q[1] * (p[2] \div g)

RLe(p, q) ==
    LET g == GCD(p[2], q[2])
    IN  p[1] * (q[2] \div g) <= q[1] * (p[2] \div g)

\* El::Min(a, b) is std::min: b when b < a, else a
Min(p, q) == IF RLt(q, p) THEN q ELSE p

(***************************************************************************)
(* Linear algebra primitives consumed by the driver (vectors are sequences *)
(* of rationals, a matrix is the sequence of its rows)                     *)
(***************************************************************************)
RECURSIVE SumTo(_, _)
SumTo(f, k) == IF k = 0 THEN Real(0) ELSE RAdd(SumTo(f, k - 1), f[k])

Dot(u, v) == SumTo([i \in DOMAIN u |-> RMul(u[i], v[i])], Len(u))

Scale(alpha, X) == [i \in DOMAIN X |-> RMul(alpha, X[i])]

\* Y := alpha X + Y
Axpy(alpha, X, Y) == [i \in DOMAIN Y |-> RAdd(RMul(alpha, X[i]), Y[i])]

\* Gemv( NORMAL, 1, A, x, 1, Y ): Y := A x + Y
GemvN(AA, xx, Y) == [j \in DOMAIN Y |-> RAdd(Dot(AA[j], xx), Y[j])]

\* Gemv( TRANSPOSE, 1, A, y, 1, Y ): Y := A^T y + Y
GemvT(AA, yy, Y) ==
    [i \in DOMAIN Y |->
        RAdd(SumTo([j \in DOMAIN AA |-> RMul(AA[j][i], yy[j])], Len(AA)), Y[i])]

\* the entries with index in S that are <= 0
NonPositiveIn(v, S) == {i \in S : v[i][1] <= 0}

NumNonPositive(v) == Cardinality(NonPositiveIn(v, DOMAIN v))

\* Nrm2(v)^2
NrmSq(v) == Dot(v, v)

\* Nrm2(v) / (1 + Nrm2(w)) <= t, decided exactly: with S = |v|^2, T = |w|^2,
\*   sqrt(S) <= t (1 + sqrt(T))  <=>  t >= 0 and S - t^2 (1 + T) <= 2 t^2 sqrt(T)
RelNrm2Le(v, w, t) ==
    LET S  == NrmSq(v)
        T  == NrmSq(w)
        t2 == RMul(t, t)
        K  == RSub(S, RMul(t2, RAdd(Real(1), T)))
    IN  /\ RLe(Real(0), t)
        /\ \/ RLe(K, Real(0))
           \/ RLe(RMul(K, K), RMul(RMul(Real(4), RMul(t2, t2)), T))

(***************************************************************************)
(* The call: its inputs, the processes that run it and what each owns      *)
(***************************************************************************)
VARIABLES
    variant,    \* which overload of Mehrotra is called
    ctrl,       \* MehrotraCtrl: tol, maxIts, maxStepRatio, initialized, system
    A, b, c,    \* the problem data
    layout,     \* how the vectors of length n are spread over the processes
    map,        \* the elimination order of the sparse factorization of J
    entry,      \* x, y, z as the caller passed them
    x, y, z,    \* the iterate
    rb, rc, rmu,            \* residuals
    dxAff, dyAff, dzAff,    \* affine direction
    dx, dy, dz,             \* scratch, then the combined direction
    mu, muAff,              \* duality measures
    local,      \* per process: the four step lengths before their AllReduce
    alpha,      \* per process: the four step lengths it holds after them
    pc,         \* per process: where it stands in the call
    numIts,     \* per process: the loop counter
    outcome,    \* per process: how its last pass through the loop head ended
    passes,     \* per process: passes through the loop head it has made
    updates,    \* per process: update steps it has applied
    ops,        \* per process: the collective operations it has executed
    solved      \* <<initializations, affine solves, corrector solves>> computed

\* the regularized solve layer (reg_ldl): one call of one of its entry points
VARIABLES
    overload,   \* the function called and which of its overloads
    regCtrl,    \* RegSolveCtrl, or the same values passed as arguments
    B,          \* the right-hand side, overwritten with the solution
    at,         \* the function the call stands in
    calls,      \* the calls made so far, with their arguments
    preconds,   \* applications of the preconditioner so far
    reported,   \* what the inner solver of the entry point reported
    info,       \* the RegSolveInfo returned
    status      \* how the call ended

\* the numeric data of one call of the solve layer
VARIABLES
    regDiag,        \* reg: the diagonal regularization
    dDiag,          \* d: the diagonal scaling of the overloads that take one
    sparseLDLFact,  \* the matrix whose factorization the caller hands over
    XIter           \* the iterate of the Krylov method

\* the local lengths of one distribution (indexing routines)
VARIABLES
    indexArgs,  \* n, bsize, cut, stride
    indexFn,    \* the routine every process of the grid dimension has called
    lengths     \* per shift: the value the routine returned

\* one call of hess_qr::AED
VARIABLES
    aedArgs,                \* H.Height(), ctrl.winBeg, ctrl.winEnd, ctrl.demandConverged
    winEnd,                 \* the end of the active window
    numIterSinceDeflation,
    deflationSize,
    decreaseLevel,
    aedInfo,                \* HessenbergQRInfo: numIterations, numUnconverged
    aedAt                   \* where the call stands

Driver == <<variant, ctrl, A, b, c, layout, map, entry, x, y, z, rb, rc, rmu,
            dxAff, dyAff, dzAff, dx, dy, dz, mu, muAff, local, alpha,
            pc, numIts, outcome, passes, updates, ops, solved>>

SolveLayer == <<overload, regCtrl, B, at, calls, preconds, reported, info, status>>

RegData == <<regDiag, dDiag, sparseLDLFact, XIter>>

Indexing == <<indexArgs, indexFn, lengths>>

AEDCall == <<aedArgs, winEnd, numIterSinceDeflation, deflationSize, decreaseLevel,
             aedInfo, aedAt>>

Elsewhere == <<Indexing, AEDCall>>

vars == <<Driver, SolveLayer, RegData, Elsewhere>>

\* bounds of the model
NumProcs == 2
IterCap == 2
MaxPrecond == 1

Variants == {"SeqDense", "DistDense", "SeqSparse", "DistSparse"}

Systems == {"FULL_KKT", "AUGMENTED_KKT", "NORMAL_KKT"}

Distributed(v) == v \in {"DistDense", "DistSparse"}

\* the processes of the call: the grid of A, the communicator of A, or the caller
Procs == IF Distributed(variant) THEN 1 .. NumProcs ELSE {1}

\* min x1 + x2  s.t.  x1 + x2 = 1, x >= 0
ProblemSet ==
    { [A |-> << <<Real(1), Real(1)>> >>, b |-> <<Real(1)>>,
       c |-> <<Real(1), Real(1)>>] }

TolSet == {Rat(1, 2)}

RatioSet == {Rat(1, 2), Real(1), Real(2)}

\* iterates a caller may pass with ctrl.initialized
IterateSet ==
    { [x |-> <<Rat(1, 2), Rat(1, 2)>>, y |-> <<Rat(-3, 4)>>, z |-> <<Rat(1, 4), Rat(1, 4)>>],
      [x |-> <<Rat(3, 2), Real(1)>>,  y |-> <<Rat(-3, 4)>>, z |-> <<Rat(1, 4), Rat(1, 4)>>],
      [x |-> <<Rat(1, 2), Rat(1, 2)>>, y |-> <<Rat(-3, 4)>>, z |-> <<Real(2), Real(2)>>],
      [x |-> <<Rat(1, 2), Rat(1, 2)>>, y |-> <<Real(1)>>,    z |-> <<Real(2), Real(2)>>],
      [x |-> <<Real(1), Real(0)>>,     y |-> <<Real(0)>>,    z |-> <<Real(1), Real(1)>>],
      [x |-> <<Real(1), Real(1)>>,     y |-> <<Real(0)>>,    z |-> <<Real(1), Real(-1)>>],
      [x |-> <<Real(1), Real(2)>>,     y |-> <<Real(0)>>,    z |-> <<Real(2), Real(1)>>] }

\* what the caller's x, y, z hold when Mehrotra is to initialize them itself
Uninitialized ==
    [x |-> <<Real(0), Real(0)>>, y |-> <<Real(0)>>, z |-> <<Real(0), Real(0)>>]

\* lp::primal::Initialize: a starting iterate with x > 0 and z > 0
InitializeSet ==
    { [x |-> <<Real(1), Real(2)>>, y |-> <<Real(0)>>, z |-> <<Real(2), Real(1)>>] }

\* what a KKT solve may return for the affine step
AffSet ==
    { [dx |-> <<Real(-1), Real(1)>>, dy |-> <<Real(1)>>,  dz |-> <<Real(1), Real(-2)>>],
      [dx |-> <<Real(1), Real(0)>>,  dy |-> <<Real(-1)>>, dz |-> <<Real(-1), Real(-1)>>] }

\* what a KKT solve may return for the centering-corrector step
CorrSet ==
    { [dx |-> <<Real(0), Real(0)>>,   dy |-> <<Real(0)>>, dz |-> <<Real(0), Real(0)>>],
      [dx |-> <<Real(-2), Real(-1)>>, dy |-> <<Real(1)>>, dz |-> <<Real(1), Real(1)>>] }

\* the k-th smallest element of a set of ranks
RECURSIVE Nth(_, _)
Nth(S, k) ==
    LET lo == CHOOSE q \in S : \A r \in S : q <= r
    IN  IF k = 1 THEN lo ELSE Nth(S \ {lo}, k - 1)

\* [MC,MR] column vectors live on the processes of grid column 0 (cols, which
\* holds rank 0) with their rows dealt cyclically over them; a DistMultiVec
\* gives each rank a block of n div P rows and the last rank the rest, and may
\* as well hold every row on the last rank.  A process may own no row.
LayoutSet(v, n) ==
    IF ~Distributed(v)
    THEN { [cols |-> {1}, owner |-> [i \in 1 .. n |-> 1]] }
    ELSE IF v = "DistDense"
    THEN { [cols |-> C,
            owner |-> [i \in 1 .. n |-> Nth(C, ((i - 1) % Cardinality(C)) + 1)]] :
             C \in {S \in SUBSET (1 .. NumProcs) : 1 \in S} }
    ELSE LET blocksize == n \div NumProcs
         IN  { [cols |-> 1 .. NumProcs,
                owner |-> [i \in 1 .. n |->
                    IF blocksize > 0 /\ (i - 1) \div blocksize < NumProcs - 1
                    THEN ((i - 1) \div blocksize) + 1 ELSE NumProcs]],
               [cols |-> 1 .. NumProcs, owner |-> [i \in 1 .. n |-> NumProcs]] }

Layouts(v, n) ==
    {l \in LayoutSet(v, n) : \A i \in 1 .. n : l.owner[i] \in l.cols}

n == Len(c)

m == Len(b)

\* the local entries of x, z and of the directions aligned with them
Owned(p) == {i \in 1 .. n : layout.owner[i] = p}

\* the m entries of y sit with rank 0
OwnedY(p) == IF p = 1 THEN 1 .. m ELSE {}

IsLocalCol(p) == p \in layout.cols

Zeros(k) == [i \in 1 .. k |-> Real(0)]

NoSteps == [affPri |-> Real(0), affDual |-> Real(0), pri |-> Real(0), dual |-> Real(0)]

\* residuals, directions and counters before the first pass
Workspace ==
    /\ rb = Zeros(m) /\ rc = Zeros(n) /\ rmu = Zeros(n)
    /\ dxAff = Zeros(n) /\ dyAff = Zeros(m) /\ dzAff = Zeros(n)
    /\ dx = Zeros(n) /\ dy = Zeros(m) /\ dz = Zeros(n)
    /\ mu = Real(0) /\ muAff = Real(0)
    /\ local = [p \in Procs |-> NoSteps]
    /\ alpha = [p \in Procs |-> NoSteps]
    /\ pc = [p \in Procs |-> "call"]
    /\ numIts = [p \in Procs |-> 0]
    /\ outcome = [p \in Procs |-> "ITERATING"]
    /\ passes = [p \in Procs |-> 0]
    /\ updates = [p \in Procs |-> 0]
    /\ ops = [p \in Procs |-> <<>>]
    /\ solved = <<0, 0, 0>>

DriverInit ==
    /\ variant \in Variants
    /\ ctrl \in [tol : TolSet, maxIts : -1 .. IterCap, maxStepRatio : RatioSet,
                 initialized : BOOLEAN, system : Systems]
    /\ \E P \in ProblemSet : A = P.A /\ b = P.b /\ c = P.c
    /\ layout \in Layouts(variant, n)
    /\ map = <<>>
    /\ \E it \in IF ctrl.initialized THEN IterateSet ELSE {Uninitialized} :
          x = it.x /\ y = it.y /\ z = it.z /\ entry = it
    /\ Workspace

NoInfo == [numIts |-> 0, relTol |-> Real(0), metRequestedTol |-> FALSE]

\* no call of the solve layer is under way
SolveIdle ==
    /\ overload = [fn |-> "none", dist |-> FALSE, withD |-> FALSE, promote |-> FALSE]
    /\ regCtrl = [alg |-> "none"]
    /\ B = <<>>
    /\ at = "idle"
    /\ calls = <<>>
    /\ preconds = 0
    /\ reported = NoInfo
    /\ info = NoInfo
    /\ status = "IDLE"

\* no numeric data: the solve layer is followed by its calls alone
NoRegData ==
    regDiag = <<>> /\ dDiag = <<>> /\ sparseLDLFact = <<>> /\ XIter = <<>>

\* no indexing routine has been called
IndexingIdle == indexArgs = <<>> /\ indexFn = "none" /\ lengths = <<>>

\* no call of AED is under way
AEDIdle ==
    /\ aedArgs = <<>> /\ winEnd = 0 /\ numIterSinceDeflation = 0
    /\ deflationSize = 0 /\ decreaseLevel = 0
    /\ aedInfo = <<>> /\ aedAt = "idle"

Init == DriverInit /\ SolveIdle /\ NoRegData /\ IndexingIdle /\ AEDIdle

(***************************************************************************)
(* What one pass of the loop body computes                                 *)
(***************************************************************************)
\* |primal - dual| / (1 + |primal|) <= tol
ObjConverged ==
    LET primObj == Dot(c, x)
        dualObj == RNeg(Dot(b, y))
        objConv == RDiv(RAbs(RSub(primObj, dualObj)), RAdd(Real(1), RAbs(primObj)))
    IN  RLe(objConv, ctrl.tol)

\* rb := A x - b
Residual_b == GemvN(A, x, Scale(Real(-1), b))

\* rc := A^T y - z + c
Residual_c == Axpy(Real(-1), z, GemvT(A, y, c))

\* rmu := x o z
Residual_mu == [i \in 1 .. n |-> RMul(x[i], z[i])]

\* || r_b ||_2 / (1 + || b ||_2) <= tol
RbConverged == RelNrm2Le(Residual_b, b, ctrl.tol)

\* || r_c ||_2 / (1 + || c ||_2) <= tol
RcConverged == RelNrm2Le(Residual_c, c, ctrl.tol)

\* a convergence test that leaves out the dual residual
ConvergedWithoutDual == ObjConverged /\ RbConverged

Converged == ObjConverged /\ RbConverged /\ RcConverged

\* a cone check that lets zero entries through
ConeViolatedStrict(p) ==
    \E i \in 1 .. n : x[i][1] < 0 \/ z[i][1] < 0

\* a cone check that counts over the entries of process p only
ConeViolatedLocally(p) ==
    NonPositiveIn(x, Owned(p)) # {} \/ NonPositiveIn(z, Owned(p)) # {}

\* the cone check as process p evaluates it: NumNonPositive counts over the
\* whole distributed vector
ConeViolated(p) == NumNonPositive(x) > 0 \/ NumNonPositive(z) > 0

CapReached(p) == numIts[p] = ctrl.maxIts

\* a loop that keeps the last ratio found in the place of the least
RECURSIVE StepLoopLastFound(_, _, _, _, _)
StepLoopLastFound(a, v, d, S, i) ==
    IF i > Len(v) THEN a
    ELSE StepLoopLastFound(IF i \in S /\ RLt(d[i], Real(0))
                           THEN RDiv(RNeg(v[i]), d[i]) ELSE a,
                           v, d, S, i + 1)

\* the loop  for i: if( d_i < 0 ) a = Min(a, -v_i/d_i)  over the entries in S
RECURSIVE StepLoop(_, _, _, _, _)
StepLoop(a, v, d, S, i) ==
    IF i > Len(v) THEN a
    ELSE StepLoop(IF i \in S /\ RLt(d[i], Real(0))
                  THEN Min(a, RDiv(RNeg(v[i]), d[i])) ELSE a,
                  v, d, S, i + 1)

\* the entries process p runs the step-length loops over
LoopEntries(p) ==
    IF variant = "DistDense" THEN (IF IsLocalCol(p) THEN Owned(p) ELSE {})
    ELSE Owned(p)

\* a local loop that only the process of rank 0 runs
LocalStepOfRoot(start, v, d, p) ==
    IF p = 1 THEN StepLoop(start, v, d, LoopEntries(p), 1) ELSE start

LocalStep(start, v, d, p) == StepLoop(start, v, d, LoopEntries(p), 1)

\* a reduction with mpi::MAX in the place of mpi::MIN
AllReduceMax(f) ==
    LET vals == {local[q][f] : q \in Procs}
    IN  CHOOSE v \in vals : \A w \in vals : RLe(w, v)

\* mpi::AllReduce( a, mpi::MIN, comm ) over what the processes hold in field f
AllReduceMin(f) ==
    LET vals == {local[q][f] : q \in Procs}
    IN  CHOOSE v \in vals : \A w \in vals : RLe(v, w)

\* a final step length without the scaling by maxStepRatio
FinalStepNoBackoff(a) == Min(a, Real(1))

\* a final step length divided by maxStepRatio
FinalStepInverted(a) == Min(RDiv(a, ctrl.maxStepRatio), Real(1))

\* alpha = Min( maxStepRatio * alpha, 1 )
FinalStep(a) == Min(RMul(ctrl.maxStepRatio, a), Real(1))

\* sigma = Pow( muAff/mu, 3 )
Sigma(muA, muNow) ==
    LET q == RDiv(muA, muNow)
    IN  RMul(q, RMul(q, q))

\* a corrector residual with the centering term added
CorrectorRmuPlus(sigma, muNow) ==
    [i \in 1 .. n |-> RAdd(RMul(dxAff[i], dzAff[i]), RMul(sigma, muNow))]

\* rmu := dxAff o dzAff - sigma*mu
CorrectorRmu(sigma, muNow) ==
    [i \in 1 .. n |-> RSub(RMul(dxAff[i], dzAff[i]), RMul(sigma, muNow))]

\* dx as a view of x in the place of a copy
ScratchAliased(v, scratch) == scratch

\* x after dx has served as scratch (dx = x is a copy)
AfterScratch(v, scratch) == v

(***************************************************************************)
(* The collective operations a process executes, in program order          *)
(***************************************************************************)
Mult == IF variant = "DistSparse" THEN "Multiply" ELSE "Gemv"

StartOps(init) ==
    <<"Nrm2(b)", "Nrm2(c)">> \o (IF init THEN <<>> ELSE <<"Initialize">>)

ConeOps == <<"NumNonPositive(x)", "NumNonPositive(z)">>

ConvOps == <<"Dot(c,x)", "Dot(b,y)", Mult, "Nrm2(rb)", Mult, "Nrm2(rc)">>

\* a NestedDissection in the first pass whether or not Initialize has filled
\* map, invMap, sepTree and info
OrderingOpsAtFirstPass(it) ==
    IF variant = "DistSparse" /\ it = 0 THEN <<"NestedDissection">> ELSE <<>>

\* the symbolic ordering of the sparse variant is computed in iteration 0
\* (by Initialize when it ran on the augmented system)
OrderingOps(it) ==
    IF variant = "DistSparse"
       /\ it = 0
       /\ (ctrl.system = "AUGMENTED_KKT" => ctrl.initialized)
    THEN <<"NestedDissection">> ELSE <<>>

FactorOps ==
    IF variant # "DistSparse" THEN <<"LDL">>
    ELSE IF ctrl.system = "NORMAL_KKT" THEN <<"LDL">> ELSE <<"RegularizedLDL">>

SolveOps ==
    IF variant # "DistSparse" THEN <<"ldl::SolveAfter">>
    ELSE IF ctrl.system = "NORMAL_KKT" THEN <<"SolveWithIterativeRefinement">>
    ELSE <<"Solve">>

\* the sanity checks of builds without EL_RELEASE
SanityOps ==
    <<"Nrm2(rmu)", "Nrm2(dzError)", Mult, "Nrm2(dyError)", Mult, "Nrm2(dxError)">>

\* the builder of the KKT matrix J
BuildOps ==
    CASE ctrl.system = "FULL_KKT" -> <<"KKT">>
      [] ctrl.system = "AUGMENTED_KKT" -> <<"AugmentedKKT">>
      [] OTHER -> <<"NormalKKT">>

AffineOps(it) == BuildOps \o OrderingOps(it) \o FactorOps \o SolveOps \o SanityOps

\* a corrector step that factors J again
CorrectorOpsFactoringAgain == FactorOps \o SolveOps

\* the corrector step solves with the factors of the affine step
CorrectorOps == SolveOps

\* an AllReduce placed inside the branch that runs the local loop
AllReduceOpsIfLocal(p, what) ==
    IF LoopEntries(p) = {} THEN <<>> ELSE <<"AllReduce(MIN," \o what \o ")">>

\* the AllReduce of one step length, as process p reaches it
AllReduceOps(p, what) == <<"AllReduce(MIN," \o what \o ")">>

CenteringOps(p) ==
    AllReduceOps(p, "alphaAffPri") \o AllReduceOps(p, "alphaAffDual")
        \o <<"Dot(x,z)", "Dot(dx,dz)">>

UpdateOps(p) == AllReduceOps(p, "alphaPri") \o AllReduceOps(p, "alphaDual")

(***************************************************************************)
(* The steps of a process                                                  *)
(***************************************************************************)
Stage(s) ==
    CASE s = "call" -> 0
      [] s = "top" -> 1
      [] s = "centering" -> 2
      [] s = "corrector" -> 3
      [] s = "update" -> 4
      [] OTHER -> 5

\* every process has entered the collective operations process p is about to
\* execute (or has left the call)
Arrived(p) ==
    \A q \in Procs :
        \/ pc[q] = "done"
        \/ numIts[q] > numIts[p]
        \/ numIts[q] = numIts[p] /\ Stage(pc[q]) >= Stage(pc[p])

Log(p, s) == [ops EXCEPT ![p] = @ \o s]

Residuals == <<rb, rc, rmu>>
Directions == <<dxAff, dyAff, dzAff, dx, dy, dz>>
Measures == <<mu, muAff>>
Inputs == <<variant, ctrl, A, b, c, layout, map, entry>>

\* the norms of b and c, and the optional initialization
Enter(p) ==
    /\ IF ~ctrl.initialized /\ solved[1] = 0
       THEN \E it \in InitializeSet :
               /\ x' = it.x /\ y' = it.y /\ z' = it.z
               /\ solved' = [solved EXCEPT ![1] = 1]
       ELSE UNCHANGED <<x, y, z, solved>>
    /\ pc' = [pc EXCEPT ![p] = "top"]
    /\ ops' = Log(p, StartOps(ctrl.initialized))
    /\ UNCHANGED <<SolveLayer, RegData, Elsewhere, Inputs, Residuals, Directions, Measures, local, alpha,
                   numIts, outcome, passes, updates>>

\* a sequential sparse overload that falls back to the dense driver
DenseFallback(p) ==
    /\ pc[p] = "call"
    /\ variant = "SeqSparse"
    /\ Enter(p)

\* the sequential sparse overload
Unsupported(p) ==
    /\ pc[p] = "call"
    /\ variant = "SeqSparse"
    /\ pc' = [pc EXCEPT ![p] = "done"]
    /\ outcome' = [outcome EXCEPT ![p] = "NOT_SUPPORTED"]
    /\ UNCHANGED <<SolveLayer, RegData, Elsewhere, Inputs, x, y, z, Residuals, Directions, Measures, local, alpha,
                   numIts, passes, updates, ops, solved>>

Start(p) ==
    /\ pc[p] = "call"
    /\ variant # "SeqSparse"
    /\ Enter(p)

\* a pass through the loop head that leaves the loop
Leave(p, how, log) ==
    /\ pc' = [pc EXCEPT ![p] = "done"]
    /\ outcome' = [outcome EXCEPT ![p] = how]
    /\ passes' = [passes EXCEPT ![p] = @ + 1]
    /\ ops' = Log(p, log)
    /\ UNCHANGED <<SolveLayer, RegData, Elsewhere, Inputs, x, y, z, rmu, Directions, Measures, local, alpha,
                   numIts, updates, solved>>

InfeasibleIterate(p) ==
    /\ pc[p] = "top" /\ Arrived(p)
    /\ ConeViolated(p)
    /\ Leave(p, "INFEASIBLE_ITERATE", ConeOps)
    /\ UNCHANGED <<rb, rc>>

Converge(p) ==
    /\ pc[p] = "top" /\ Arrived(p)
    /\ ~ConeViolated(p)
    /\ Converged
    /\ Leave(p, "CONVERGED", ConeOps \o ConvOps)
    /\ rb' = Residual_b /\ rc' = Residual_c

\* a cap test placed before the convergence test
MaxItsExceededFirst(p) ==
    /\ pc[p] = "top" /\ Arrived(p)
    /\ ~ConeViolated(p)
    /\ CapReached(p)
    /\ Leave(p, "MAX_ITERS_EXCEEDED", ConeOps \o ConvOps)
    /\ rb' = Residual_b /\ rc' = Residual_c

MaxItsExceeded(p) ==
    /\ pc[p] = "top" /\ Arrived(p)
    /\ ~ConeViolated(p)
    /\ ~Converged
    /\ CapReached(p)
    /\ Leave(p, "MAX_ITERS_EXCEEDED", ConeOps \o ConvOps)
    /\ rb' = Residual_b /\ rc' = Residual_c

\* the loop head passed, the affine direction (one of those in S) and the
\* local affine step lengths
PredictorWith(p, S) ==
    /\ pc[p] = "top" /\ Arrived(p)
    /\ ~ConeViolated(p)
    /\ ~Converged
    /\ ~CapReached(p)
    /\ numIts[p] < IterCap
    /\ rb' = Residual_b /\ rc' = Residual_c /\ rmu' = Residual_mu
    /\ IF solved[2] = numIts[p]
       THEN \E d \in S :
               /\ dxAff' = d.dx /\ dyAff' = d.dy /\ dzAff' = d.dz
               /\ solved' = [solved EXCEPT ![2] = @ + 1]
       ELSE UNCHANGED <<dxAff, dyAff, dzAff, solved>>
    /\ local' = [local EXCEPT ![p].affPri = LocalStep(Real(1), x, dxAff', p),
                              ![p].affDual = LocalStep(Real(1), z, dzAff', p)]
    /\ pc' = [pc EXCEPT ![p] = "centering"]
    /\ outcome' = [outcome EXCEPT ![p] = "ITERATING"]
    /\ passes' = [passes EXCEPT ![p] = @ + 1]
    /\ ops' = Log(p, ConeOps \o ConvOps \o AffineOps(numIts[p]))
    /\ UNCHANGED <<SolveLayer, RegData, Elsewhere, Inputs, x, y, z, dx, dy, dz, Measures, alpha, numIts, updates>>

\* the affine step with the solve left open
Predictor(p) == PredictorWith(p, AffSet)

\* the affine step lengths, the duality measures and the corrector's residuals
Centering(p) ==
    /\ pc[p] = "centering" /\ Arrived(p)
    /\ LET aPri  == AllReduceMin("affPri")
           aDual == AllReduceMin("affDual")
           sx    == Axpy(aPri, dxAff, x)
           sz    == Axpy(aDual, dzAff, z)
           muNow == RDiv(Dot(x, z), Real(n))
           muA   == RDiv(Dot(sx, sz), Real(n))
       IN  /\ alpha' = [alpha EXCEPT ![p].affPri = aPri, ![p].affDual = aDual]
           /\ mu' = muNow
           /\ dx' = [i \in 1 .. n |-> IF i \in Owned(p) THEN sx[i] ELSE dx[i]]
           /\ dz' = [i \in 1 .. n |-> IF i \in Owned(p) THEN sz[i] ELSE dz[i]]
           /\ x' = AfterScratch(x, dx')
           /\ z' = AfterScratch(z, dz')
           /\ muAff' = muA
           /\ rmu' = CorrectorRmu(Sigma(muA, muNow), muNow)
    /\ rc' = Zeros(n) /\ rb' = Zeros(m)
    /\ pc' = [pc EXCEPT ![p] = "corrector"]
    /\ ops' = Log(p, CenteringOps(p))
    /\ UNCHANGED <<SolveLayer, RegData, Elsewhere, Inputs, y, dxAff, dyAff, dzAff, dy, local,
                   numIts, outcome, passes, updates, solved>>

\* the corrector solve, the combined direction and the local step lengths
CorrectorWith(p, S) ==
    /\ pc[p] = "corrector" /\ Arrived(p)
    /\ IF solved[3] = numIts[p]
       THEN \E d \in S :
               /\ dx' = Axpy(Real(1), dxAff, d.dx)
               /\ dy' = Axpy(Real(1), dyAff, d.dy)
               /\ dz' = Axpy(Real(1), dzAff, d.dz)
               /\ solved' = [solved EXCEPT ![3] = @ + 1]
       ELSE UNCHANGED <<dx, dy, dz, solved>>
    /\ LET start == RDiv(Real(1), ctrl.maxStepRatio)
       IN  local' = [local EXCEPT ![p].pri = LocalStep(start, x, dx', p),
                                  ![p].dual = LocalStep(start, z, dz', p)]
    /\ pc' = [pc EXCEPT ![p] = "update"]
    /\ ops' = Log(p, CorrectorOps)
    /\ UNCHANGED <<SolveLayer, RegData, Elsewhere, Inputs, x, y, z, Residuals, dxAff, dyAff, dzAff, Measures, alpha,
                   numIts, outcome, passes, updates>>

\* a corrector step that checks A dx = -rb after the solve and raises an
\* error when the check fails
CorrectorCheckingResidual(p) ==
    \/ CorrectorWith(p, {d \in CorrSet : GemvN(A, d.dx, rb) = Zeros(m)})
    \/ /\ pc[p] = "corrector" /\ Arrived(p)
       /\ \E d \in CorrSet : GemvN(A, d.dx, rb) # Zeros(m)
       /\ Leave(p, "RESIDUAL_TOO_LARGE", CorrectorOps)
       /\ UNCHANGED <<rb, rc>>

\* the corrector step with the solve left open
Corrector(p) == CorrectorWith(p, CorrSet)

\* an update that moves y by the primal step length
UpdateYByPrimal(p) ==
    /\ pc[p] = "update" /\ Arrived(p)
    /\ LET aPri  == FinalStep(AllReduceMin("pri"))
           aDual == FinalStep(AllReduceMin("dual"))
           ux    == Axpy(aPri, dx, x)
           uy    == Axpy(aPri, dy, y)
           uz    == Axpy(aDual, dz, z)
       IN  /\ alpha' = [alpha EXCEPT ![p].pri = aPri, ![p].dual = aDual]
           /\ x' = [i \in 1 .. n |-> IF i \in Owned(p) THEN ux[i] ELSE x[i]]
           /\ y' = [j \in 1 .. m |-> IF j \in OwnedY(p) THEN uy[j] ELSE y[j]]
           /\ z' = [i \in 1 .. n |-> IF i \in Owned(p) THEN uz[i] ELSE z[i]]
    /\ numIts' = [numIts EXCEPT ![p] = @ + 1]
    /\ updates' = [updates EXCEPT ![p] = @ + 1]
    /\ pc' = [pc EXCEPT ![p] = "top"]
    /\ ops' = Log(p, UpdateOps(p))
    /\ UNCHANGED <<SolveLayer, RegData, Elsewhere, Inputs, Residuals, Directions, Measures, local,
                   outcome, passes, solved>>

\* the final step lengths and the update of the local entries of the iterate
Update(p) ==
    /\ pc[p] = "update" /\ Arrived(p)
    /\ LET aPri  == FinalStep(AllReduceMin("pri"))
           aDual == FinalStep(AllReduceMin("dual"))
           ux    == Axpy(aPri, dx, x)
           uy    == Axpy(aDual, dy, y)
           uz    == Axpy(aDual, dz, z)
       IN  /\ alpha' = [alpha EXCEPT ![p].pri = aPri, ![p].dual = aDual]
           /\ x' = [i \in 1 .. n |-> IF i \in Owned(p) THEN ux[i] ELSE x[i]]
           /\ y' = [j \in 1 .. m |-> IF j \in OwnedY(p) THEN uy[j] ELSE y[j]]
           /\ z' = [i \in 1 .. n |-> IF i \in Owned(p) THEN uz[i] ELSE z[i]]
    /\ numIts' = [numIts EXCEPT ![p] = @ + 1]
    /\ updates' = [updates EXCEPT ![p] = @ + 1]
    /\ pc' = [pc EXCEPT ![p] = "top"]
    /\ ops' = Log(p, UpdateOps(p))
    /\ UNCHANGED <<SolveLayer, RegData, Elsewhere, Inputs, Residuals, Directions, Measures, local,
                   outcome, passes, solved>>

Next ==
    \/ \E p \in Procs : Unsupported(p)
    \/ \E p \in Procs : Start(p)
    \/ \E p \in Procs : InfeasibleIterate(p)
    \/ \E p \in Procs : Converge(p)
    \/ \E p \in Procs : MaxItsExceeded(p)
    \/ \E p \in Procs : Predictor(p)
    \/ \E p \in Procs : Centering(p)
    \/ \E p \in Procs : Corrector(p)
    \/ \E p \in Procs : Update(p)

Spec == Init /\ [][Next]_vars

(***************************************************************************)
(* The three formulations of the Newton step.  The search direction solves *)
(*   rb + A dx = 0,  rc + A^T dy - dz = 0,  rmu + x o dz + z o dx = 0,     *)
(* the three equations the sanity checks of the driver evaluate.  A matrix *)
(* is the sequence of its rows.                                            *)
(***************************************************************************)
\* | 0   A^T  -I      |
\* | A   0     0      |
\* | -I  0    -z <> x |
KKT(AA, xx, zz) ==
    LET nn == Len(xx)
        mm == Len(AA)
    IN  [i \in 1 .. 2 * nn + mm |-> [j \in 1 .. 2 * nn + mm |->
            IF i <= nn
            THEN (IF j > nn /\ j <= nn + mm THEN AA[j - nn][i]
                  ELSE IF j = nn + mm + i THEN Real(-1) ELSE Real(0))
            ELSE IF i <= nn + mm
            THEN (IF j <= nn THEN AA[i - nn][j] ELSE Real(0))
            ELSE (IF j = i - nn - mm THEN Real(-1)
                  ELSE IF j = i THEN RNeg(RDiv(xx[i - nn - mm], zz[i - nn - mm]))
                  ELSE Real(0))]]

\* d = ( -rc, -rb, z <> rmu )
KKTRHS(r_c, r_b, r_mu, zz) ==
    LET nn == Len(r_c)
        mm == Len(r_b)
    IN  [i \in 1 .. 2 * nn + mm |->
            IF i <= nn THEN RNeg(r_c[i])
            ELSE IF i <= nn + mm THEN RNeg(r_b[i - nn])
            ELSE RDiv(r_mu[i - nn - mm], zz[i - nn - mm])]

ExpandSolution(mm, nn, d) ==
    [dx |-> [i \in 1 .. nn |-> d[i]],
     dy |-> [j \in 1 .. mm |-> d[nn + j]],
     dz |-> [i \in 1 .. nn |-> d[nn + mm + i]]]

\* | x <> z  A^T |
\* | A       0   |
AugmentedKKT(AA, xx, zz) ==
    LET nn == Len(xx)
        mm == Len(AA)
    IN  [i \in 1 .. nn + mm |-> [j \in 1 .. nn + mm |->
            IF i <= nn
            THEN (IF j = i THEN RDiv(zz[i], xx[i])
                  ELSE IF j > nn THEN AA[j - nn][i] ELSE Real(0))
            ELSE (IF j <= nn THEN AA[i - nn][j] ELSE Real(0))]]

\* d = ( -rc - x <> rmu, -rb )
AugmentedKKTRHS(xx, r_c, r_b, r_mu) ==
    LET nn == Len(r_c)
        mm == Len(r_b)
    IN  [i \in 1 .. nn + mm |->
            IF i <= nn THEN RNeg(RAdd(r_c[i], RDiv(r_mu[i], xx[i])))
            ELSE RNeg(r_b[i - nn])]

\* dz = - x <> ( rmu + z o dx )
ExpandAugmentedSolution(xx, zz, r_mu, d) ==
    LET nn == Len(xx)
        mm == Len(d) - nn
    IN  [dx |-> [i \in 1 .. nn |-> d[i]],
         dy |-> [j \in 1 .. mm |-> d[nn + j]],
         dz |-> [i \in 1 .. nn |->
                   RNeg(RDiv(RAdd(r_mu[i], RMul(zz[i], d[i])), xx[i]))]]

\* A ( z <> x ) A^T
NormalKKT(AA, xx, zz) ==
    [i \in 1 .. Len(AA) |-> [j \in 1 .. Len(AA) |->
        SumTo([k \in 1 .. Len(xx) |->
                  RMul(RMul(AA[i][k], RDiv(xx[k], zz[k])), AA[j][k])], Len(xx))]]

\* d = rb - A ( z <> ( rmu + x o rc ) )
NormalKKTRHS(AA, xx, zz, r_c, r_b, r_mu) ==
    [i \in 1 .. Len(AA) |->
        RSub(r_b[i],
             SumTo([k \in 1 .. Len(xx) |->
                       RMul(AA[i][k],
                            RDiv(RAdd(r_mu[k], RMul(xx[k], r_c[k])), zz[k]))],
                   Len(xx)))]

\* dz = rc + A^T dy,  dx = - z <> ( rmu + x o dz )
ExpandNormalSolution(AA, xx, zz, r_c, r_mu, d) ==
    LET ez == GemvT(AA, d, r_c)
    IN  [dx |-> [i \in 1 .. Len(xx) |->
                   RNeg(RDiv(RAdd(r_mu[i], RMul(xx[i], ez[i])), zz[i]))],
         dy |-> d,
         dz |-> ez]

\* Gauss-Jordan elimination on the rows of T (coefficients, then the
\* right-hand side), with a row exchange when the pivot is zero
RECURSIVE Eliminate(_, _, _)
Eliminate(T, k, N) ==
    IF k > N THEN T
    ELSE LET cand == {i \in k .. N : T[i][k] # Real(0)}
         IN  IF cand = {} THEN T
             ELSE LET pr  == CHOOSE i \in cand : \A j \in cand : i <= j
                      S   == [T EXCEPT ![k] = T[pr], ![pr] = T[k]]
                      row == [j \in 1 .. N + 1 |-> RDiv(S[k][j], S[k][k])]
                  IN  Eliminate([i \in 1 .. N |->
                                    IF i = k THEN row
                                    ELSE [j \in 1 .. N + 1 |->
                                            RSub(S[i][j], RMul(S[i][k], row[j]))]],
                                k + 1, N)

\* the solution of J d = rhs: a symmetric factorization with pivoting and
\* the solve with its factors
LDLSolve(J, rhs) ==
    LET N == Len(rhs)
        T == [i \in 1 .. N |-> [j \in 1 .. N + 1 |->
                 IF j <= N THEN J[i][j] ELSE rhs[i]]]
        E == Eliminate(T, 1, N)
    IN  [i \in 1 .. N |-> E[i][N + 1]]

MaxNorm(J) ==
    LET vals == {RAbs(J[i][j]) : i \in DOMAIN J, j \in DOMAIN J}
    IN  CHOOSE v \in vals : \A w \in vals : RLe(w, v)

\* lapack::MachineEpsilon<Real>(), scaled to the range of the model, and
\* the powers of it the driver regularizes with
epsilon == Rat(1, 16)

\* Pow(epsilon,Real(0.75))
regMagPrimal == Rat(1, 8)

\* Pow(epsilon,Real(0.5))
regMagLagrange == Rat(1, 4)

regMagDual == Rat(1, 4)

\* the regularization a pivot of row i may get
regCand(sys, i) ==
    IF i <= n THEN regMagPrimal
    ELSE IF sys = "AUGMENTED_KKT" \/ i <= n + m THEN RNeg(regMagLagrange)
    ELSE RNeg(regMagDual)

\* RegularizedLDL: elimination in the order given, without exchanges; a
\* pivot below pivTol in magnitude gets its candidate added.  The result is
\* the regularization that was applied.
RECURSIVE RegularizedLDL(_, _, _, _, _, _)
RegularizedLDL(S, reg, k, order, pivTol, sys) ==
    IF k > Len(order) THEN reg
    ELSE LET i    == order[k]
             r    == IF RLt(RAbs(S[i][i]), pivTol) THEN regCand(sys, i)
                     ELSE Real(0)
             piv  == RAdd(S[i][i], r)
             left == {order[j] : j \in k + 1 .. Len(order)}
         IN  RegularizedLDL(
                 [a \in DOMAIN S |-> [bb \in DOMAIN S |->
                     IF a \in left /\ bb \in left
                     THEN RSub(S[a][bb], RDiv(RMul(S[a][i], S[i][bb]), piv))
                     ELSE S[a][bb]]],
                 [reg EXCEPT ![i] = r], k + 1, order, pivTol, sys)

\* the matrix the sparse factors of J stand for: J with the regularization
\* that RegularizedLDL applied on its diagonal
Regularized(J, order, sys) ==
    LET reg == RegularizedLDL(J, [i \in DOMAIN J |-> Real(0)], 1, order,
                              RMul(MaxNorm(J), epsilon), sys)
    IN  [i \in DOMAIN J |-> [j \in DOMAIN J |->
            IF i = j THEN RAdd(J[i][j], reg[i]) ELSE J[i][j]]]

\* the matrix that is factored and solved with: J itself for the dense
\* LDL and for the sparse LDL of the normal equations, the regularized J for
\* Solve( info, JFrontTree, dNodal ) after RegularizedLDL
Factored(J, order, sys) ==
    IF variant = "DistSparse" /\ sys # "NORMAL_KKT"
    THEN Regularized(J, order, sys) ELSE J

\* build, factor, solve and expand with formulation sys
KKTSolve(sys, order, r_c, r_b, r_mu) ==
    CASE sys = "FULL_KKT" ->
           ExpandSolution(m, n,
               LDLSolve(Factored(KKT(A, x, z), order, sys),
                        KKTRHS(r_c, r_b, r_mu, z)))
      [] sys = "AUGMENTED_KKT" ->
           ExpandAugmentedSolution(x, z, r_mu,
               LDLSolve(Factored(AugmentedKKT(A, x, z), order, sys),
                        AugmentedKKTRHS(x, r_c, r_b, r_mu)))
      [] OTHER ->
           ExpandNormalSolution(A, x, z, r_c, r_mu,
               LDLSolve(Factored(NormalKKT(A, x, z), order, sys),
                        NormalKKTRHS(A, x, z, r_c, r_b, r_mu)))

\* the height of J
KKTSize(sys) ==
    CASE sys = "FULL_KKT" -> 2 * n + m
      [] sys = "AUGMENTED_KKT" -> n + m
      [] OTHER -> m

\* orderings NestedDissection may return for a matrix of height k: the
\* natural one, and the natural one with its first two rows exchanged
OrderSet(k) ==
    { [i \in 1 .. k |-> i],
      [i \in 1 .. k |-> IF k >= 2 /\ i <= 2 THEN 3 - i ELSE i] }

\* the affine step of the driver with the solve carried out
NewtonPredictor(p) ==
    PredictorWith(p, {KKTSolve(ctrl.system, map, Residual_c, Residual_b,
                               Residual_mu)})

\* the corrector step of the driver with the solve carried out
NewtonCorrector(p) ==
    CorrectorWith(p, {KKTSolve(ctrl.system, map, rc, rb, rmu)})

\* iterates a caller may pass: x <> z is below pivTol in the first three
NewtonIterateSet ==
    { [x |-> <<Real(1), Real(1)>>, y |-> <<Real(0)>>, z |-> <<Rat(1, 8), Rat(1, 8)>>],
      [x |-> <<Real(1), Real(2)>>, y |-> <<Real(0)>>, z |-> <<Rat(1, 8), Rat(1, 4)>>],
      [x |-> <<Real(1), Real(1)>>, y |-> <<Rat(-1, 4)>>, z |-> <<Rat(1, 8), Rat(1, 8)>>],
      [x |-> <<Real(1), Real(0)>>, y |-> <<Real(0)>>, z |-> <<Real(1), Real(1)>>] }

\* min x1 + x2  s.t.  4 x1 + 4 x2 = b, x >= 0
NewtonProblemSet ==
    { [A |-> << <<Real(4), Real(4)>> >>, b |-> <<Real(8)>>,
       c |-> <<Real(1), Real(1)>>],
      [A |-> << <<Real(4), Real(4)>> >>, b |-> <<Real(4)>>,
       c |-> <<Real(1), Real(1)>>] }

NewtonInit ==
    /\ variant \in Variants \ {"SeqSparse"}
    /\ ctrl \in [tol : {Rat(1, 8)}, maxIts : 0 .. IterCap, maxStepRatio : {Rat(1, 2)},
                 initialized : {TRUE}, system : Systems]
    /\ \E P \in NewtonProblemSet : A = P.A /\ b = P.b /\ c = P.c
    /\ layout \in Layouts(variant, n)
    /\ map \in OrderSet(KKTSize(ctrl.system))
    /\ \E it \in NewtonIterateSet :
          x = it.x /\ y = it.y /\ z = it.z /\ entry = it
    /\ Workspace
    /\ SolveIdle /\ NoRegData /\ IndexingIdle /\ AEDIdle

NewtonNext ==
    \/ \E p \in Procs : Start(p)
    \/ \E p \in Procs : InfeasibleIterate(p)
    \/ \E p \in Procs : Converge(p)
    \/ \E p \in Procs : MaxItsExceeded(p)
    \/ \E p \in Procs : NewtonPredictor(p)
    \/ \E p \in Procs : Centering(p)
    \/ \E p \in Procs : NewtonCorrector(p)

\* one pass of the driver, up to the combined direction, with the KKT
\* systems built, factored and solved
NewtonSpec == NewtonInit /\ [][NewtonNext]_vars

(***************************************************************************)
(* The regularized solve layer: reg_ldl::SolveAfter and what it calls      *)
(***************************************************************************)
EntryPoints ==
    {"SolveAfter", "FGMRESSolveAfter", "LGMRESSolveAfter", "RegularizedSolveAfter"}

\* RegSolveAlg, and a value outside the enumeration
Algs == {"REG_SOLVE_FGMRES", "REG_SOLVE_LGMRES", "INVALID"}

RelTolSet == {Rat(1, 4), Rat(1, 8)}

\* <<restart, maxIts, maxRefineIts>>
ItsSet == {<<2, 3, 4>>, <<3, 3, 3>>, <<4, 2, 3>>}

RegSolveCtrlSet ==
    {[alg |-> a, relTol |-> t, restart |-> k[1], maxIts |-> k[2],
      relTolRefine |-> tr, maxRefineIts |-> k[3]] :
        a \in Algs, t \in RelTolSet, tr \in RelTolSet, k \in ItsSet}

\* what an inner solver may report
InfoSet ==
    [numIts : {0, 3}, relTol : {Rat(1, 16), Rat(1, 2)}, metRequestedTol : BOOLEAN]

RhsSet == {<<Real(1)>>}

SolutionSet == {<<Real(2)>>, <<Real(3)>>}

\* the driver at rest while the solve layer runs
DriverIdle ==
    /\ DriverInit
    /\ variant = "SeqSparse"
    /\ ctrl = [tol |-> Rat(1, 2), maxIts |-> 0, maxStepRatio |-> Real(1),
               initialized |-> FALSE, system |-> "FULL_KKT"]

SolveInit ==
    /\ overload \in [fn : EntryPoints, dist : BOOLEAN, withD : BOOLEAN,
                     promote : BOOLEAN]
    /\ regCtrl \in RegSolveCtrlSet
    /\ B \in RhsSet
    /\ at = overload.fn
    /\ calls = <<>>
    /\ preconds = 0
    /\ reported = NoInfo
    /\ info = NoInfo
    /\ status = "RUNNING"

RegInit == DriverIdle /\ SolveInit /\ NoRegData /\ IndexingIdle /\ AEDIdle

\* arguments with the two tolerances in each other's place
KrylovArgsSwapped(fn, k) ==
    [fn |-> fn, withD |-> overload.withD,
     relTol |-> k.relTolRefine, restart |-> k.restart, maxIts |-> k.maxIts,
     relTolRefine |-> k.relTol, maxRefineIts |-> k.maxRefineIts]

\* the arguments SolveAfter hands to the Krylov wrapper
KrylovArgs(fn, k) ==
    [fn |-> fn, withD |-> overload.withD,
     relTol |-> k.relTol, restart |-> k.restart, maxIts |-> k.maxIts,
     relTolRefine |-> k.relTolRefine, maxRefineIts |-> k.maxRefineIts]

\* switch( ctrl.alg )
DispatchTarget(alg) ==
    CASE alg = "REG_SOLVE_FGMRES" -> "FGMRESSolveAfter"
      [] alg = "REG_SOLVE_LGMRES" -> "LGMRESSolveAfter"
      [] OTHER -> "LogicError"

Dispatch ==
    /\ at = "SolveAfter"
    /\ DispatchTarget(regCtrl.alg) # "LogicError"
    /\ at' = DispatchTarget(regCtrl.alg)
    /\ calls' = Append(calls, KrylovArgs(DispatchTarget(regCtrl.alg), regCtrl))
    /\ UNCHANGED <<Driver, Elsewhere, RegData, overload, regCtrl, B, preconds, reported, info, status>>

\* default: LogicError("Invalid refinement algorithm")
InvalidAlgorithm ==
    /\ at = "SolveAfter"
    /\ DispatchTarget(regCtrl.alg) = "LogicError"
    /\ at' = "done"
    /\ status' = "LOGIC_ERROR"
    /\ UNCHANGED <<Driver, Elsewhere, RegData, overload, regCtrl, B, calls, preconds, reported, info>>

\* the Krylov method a wrapper runs
KrylovMethod(fn) == IF fn = "FGMRESSolveAfter" THEN "FGMRES" ELSE "LGMRES"

\* FGMRES( applyA, precond, B, relTol, restart, maxIts, progress )
KrylovCall(fn, k) ==
    [fn |-> KrylovMethod(fn), relTol |-> k.relTol, restart |-> k.restart,
     maxIts |-> k.maxIts]

\* precond: RegularizedSolveAfter( A, reg[, d], sparseLDLFact, W, relTolRefine, maxRefineIts, progress )
PrecondCall(k) ==
    [fn |-> "RegularizedSolveAfter", withD |-> overload.withD,
     relTol |-> k.relTolRefine, maxRefineIts |-> k.maxRefineIts]

\* RegularizedSolveAfterPromote: refinement in the promoted field where there is one
RefinementCall(rsa) ==
    [fn |-> IF overload.promote THEN "PromotedRefinedSolve" ELSE "RefinedSolve",
     withD |-> rsa.withD, relTol |-> rsa.relTol, maxRefineIts |-> rsa.maxRefineIts]

\* the wrapper builds applyA and precond and starts the Krylov method
KrylovSolveAfter ==
    /\ at \in {"FGMRESSolveAfter", "LGMRESSolveAfter"}
    /\ at' = KrylovMethod(at)
    /\ calls' = Append(calls, KrylovCall(at, regCtrl))
    /\ UNCHANGED <<Driver, Elsewhere, RegData, overload, regCtrl, B, preconds, reported, info, status>>

\* the Krylov method applies the preconditioner to a work vector and moves
\* its iterate to Xnext
PreconditionWith(Xnext) ==
    /\ at \in {"FGMRES", "LGMRES"}
    /\ preconds < MaxPrecond
    /\ preconds' = preconds + 1
    /\ calls' = calls \o <<PrecondCall(regCtrl), RefinementCall(PrecondCall(regCtrl))>>
    /\ XIter' = Xnext
    /\ UNCHANGED <<Driver, Elsewhere, regDiag, dDiag, sparseLDLFact, overload, regCtrl, B, at,
                   reported, info, status>>

\* the same with the numbers left out
Precondition == PreconditionWith(XIter)

\* the Krylov method ends and reports one of the outcomes in S
KrylovReportWith(S) ==
    /\ at \in {"FGMRES", "LGMRES"}
    /\ \E r \in S : reported' = r.info /\ B' = r.B
    /\ at' = "copy"
    /\ UNCHANGED <<Driver, Elsewhere, RegData, overload, regCtrl, calls, preconds, info,
                   status>>

\* the same with the outcome left open
KrylovReport ==
    KrylovReportWith([info : InfoSet, B : SolutionSet])

\* RegularizedSolveAfter called directly: refinement, which reports one of
\* the outcomes in S
RegularizedSolveAfterWith(S) ==
    /\ at = "RegularizedSolveAfter"
    /\ calls' = Append(calls, RefinementCall(
                   [withD |-> overload.withD, relTol |-> regCtrl.relTolRefine,
                    maxRefineIts |-> regCtrl.maxRefineIts]))
    /\ \E r \in S : reported' = r.info /\ B' = r.B
    /\ at' = "copy"
    /\ UNCHANGED <<Driver, Elsewhere, RegData, overload, regCtrl, preconds, info, status>>

\* the same with the outcome left open
RegularizedSolveAfter ==
    RegularizedSolveAfterWith([info : InfoSet, B : SolutionSet])

\* an info that takes the tolerance to be met
RegSolveInfoAssumingSuccess(r) ==
    [numIts |-> r.numIts, relTol |-> r.relTol, metRequestedTol |-> TRUE]

\* RegSolveInfo info; info.numIts = ...; info.relTol = ...; info.metRequestedTol = ...
RegSolveInfo(r) ==
    [numIts |-> r.numIts, relTol |-> r.relTol, metRequestedTol |-> r.metRequestedTol]

ReturnInfo ==
    /\ at = "copy"
    /\ info' = RegSolveInfo(reported)
    /\ status' = "RETURNED"
    /\ at' = "done"
    /\ UNCHANGED <<Driver, Elsewhere, RegData, overload, regCtrl, B, calls, preconds, reported>>

RegNext ==
    \/ Dispatch
    \/ InvalidAlgorithm
    \/ KrylovSolveAfter
    \/ Precondition
    \/ KrylovReport
    \/ RegularizedSolveAfter
    \/ ReturnInfo

RegSpec == RegInit /\ [][RegNext]_vars

(***************************************************************************)
(* The solve layer with its numbers: the operators the entry points build  *)
(* and what refinement and the Krylov method make of them.  A vector is    *)
(* written v \o <<>> where it is to be held as a tuple of its entries.     *)
(***************************************************************************)
MaxAbs(v) ==
    LET vals == {RAbs(v[i]) : i \in DOMAIN v}
    IN  CHOOSE a \in vals : \A w \in vals : RLe(w, a)

\* an operator for the residuals that leaves reg out
applyAWithoutReg(V) == GemvN(A, V, Zeros(Len(V))) \o <<>>

\* applyA of RegularizedSolveAfter:
\*   Y = X; DiagonalScale( LEFT, NORMAL, reg, Y ); Multiply( NORMAL, 1, A, X, 1, Y )
applyA(V) ==
    GemvN(A, V, [i \in DOMAIN V |-> RMul(regDiag[i], V[i])]) \o <<>>

DiagonalSolve(dd, Y) == [i \in DOMAIN Y |-> RDiv(Y[i], dd[i])] \o <<>>

\* applyAInv: sparseLDLFact.Solve( Y ), between two DiagonalSolve by d in
\* the overloads that take d
applyAInv(Y) ==
    IF overload.withD
    THEN DiagonalSolve(dDiag,
             LDLSolve(sparseLDLFact, DiagonalSolve(dDiag, Y)) \o <<>>)
    ELSE LDLSolve(sparseLDLFact, Y) \o <<>>

\* the relative residual test, with the norms of the residual and of b
MetTol(errorNorm, bNorm, relTol) == RLe(errorNorm, RMul(relTol, bNorm))

RelError(errorNorm, bNorm) ==
    IF bNorm = Real(0) THEN Real(0) ELSE RDiv(errorNorm, bNorm)

\* the refinement loop at iterate xv with residual res
RECURSIVE RefineLoop(_, _, _, _, _, _)
RefineLoop(xv, res, refineIt, b0, relTol, maxRefineIts) ==
    LET bNorm == MaxAbs(b0)
        errorNorm == MaxAbs(res)
        done == [B |-> xv,
                 info |-> [numIts |-> refineIt,
                           relTol |-> RelError(errorNorm, bNorm),
                           metRequestedTol |-> MetTol(errorNorm, bNorm, relTol)]]
    IN  IF MetTol(errorNorm, bNorm, relTol) \/ refineIt >= maxRefineIts
        THEN done
        ELSE LET xCand  == Axpy(Real(1), applyAInv(res), xv) \o <<>>
                 newRes == Axpy(Real(-1), applyA(xCand), b0) \o <<>>
             IN  IF RLt(MaxAbs(newRes), errorNorm)
                 THEN RefineLoop(xCand, newRes, refineIt + 1, b0, relTol,
                                 maxRefineIts)
                 ELSE done

\* RefinedSolve( applyA, applyAInv, B, relTol, maxRefineIts, progress ):
\* x = applyAInv(b), then corrections by applyAInv of the residual b - applyA(x)
RefinedSolve(b0, relTol, maxRefineIts) ==
    LET x0 == applyAInv(b0)
    IN  RefineLoop(x0, Axpy(Real(-1), applyA(x0), b0) \o <<>>, 0, b0, relTol,
                   maxRefineIts)

\* an operator for the Krylov method with reg added to A
KrylovApplyAWithReg(a, V, bt, Y) ==
    [i \in DOMAIN Y |-> RAdd(RMul(a, applyA(V)[i]), RMul(bt, Y[i]))] \o <<>>

\* applyA of the Krylov wrappers: Multiply( NORMAL, alpha, A, X, beta, Y )
KrylovApplyA(a, V, bt, Y) ==
    [i \in DOMAIN Y |->
        RAdd(RMul(a, GemvN(A, V, Zeros(Len(Y)))[i]), RMul(bt, Y[i]))] \o <<>>

\* precond of the Krylov wrappers: RegularizedSolveAfter on the work vector
\* with relTolRefine and maxRefineIts
precond(W) == RefinedSolve(W, regCtrl.relTolRefine, regCtrl.maxRefineIts).B

\* the residual of the Krylov method at iterate V: W = B, then applyA( -1, V, 1, W )
KrylovResidual(V) == KrylovApplyA(Real(-1), V, Real(1), B)

\* one step of the Krylov method with one direction: the preconditioned
\* residual zv, its image q under the operator, and the multiple of zv that
\* leaves the least residual
KrylovStep(V) ==
    LET r  == KrylovResidual(V)
        zv == precond(r)
        q  == KrylovApplyA(Real(1), zv, Real(0), zv)
        qq == Dot(q, q)
    IN  IF qq = Real(0) THEN V ELSE Axpy(RDiv(Dot(q, r), qq), zv, V) \o <<>>

KrylovMet(V) == MetTol(MaxAbs(KrylovResidual(V)), MaxAbs(B), regCtrl.relTol)

\* what the Krylov method reports at iterate V
KrylovOutcome(V) ==
    [B |-> V,
     info |-> [numIts |-> preconds,
               relTol |-> RelError(MaxAbs(KrylovResidual(V)), MaxAbs(B)),
               metRequestedTol |-> KrylovMet(V)]]

\* the matrix A + diag(reg)
AddDiagonal(M, r) ==
    [i \in DOMAIN M |-> [j \in DOMAIN M |->
        IF i = j THEN RAdd(M[i][j], r[i]) ELSE M[i][j]]]

\* diag(dd) M diag(dd): what the overloads that take d say has been factored
DiagonalScaled(dd, M) ==
    [i \in DOMAIN M |-> [j \in DOMAIN M |-> RMul(dd[i], RMul(M[i][j], dd[j]))]]

\* the matrix the factorization handed over stands for, with E the error of
\* the factorization on the diagonal
FactoredWith(E) ==
    LET M == AddDiagonal(AddDiagonal(A, regDiag), E)
    IN  IF overload.withD THEN DiagonalScaled(dDiag, M) ELSE M

\* symmetric indefinite systems: one with a zero diagonal, one diagonal
SystemSet ==
    { << <<Real(0), Real(1)>>, <<Real(1), Real(0)>> >>,
      << <<Real(1), Real(0)>>, <<Real(0), Real(-1)>> >> }

RegSet == { <<Real(0), Real(0)>>, <<Real(1), Real(-1)>> }

DSet == { <<Real(1), Real(-1)>>, <<Real(1), Rat(1, 2)>> }

FactErrorSet == { <<Real(0), Real(0)>>, <<Real(0), Real(-2)>> }

RefineRhsSet == { <<Real(1), Real(0)>>, <<Real(1), Real(2)>> }

RefineInit ==
    /\ variant = "SeqSparse"
    /\ ctrl = [tol |-> Rat(1, 2), maxIts |-> 0, maxStepRatio |-> Real(1),
               initialized |-> FALSE, system |-> "FULL_KKT"]
    /\ A \in SystemSet
    /\ b = <<Real(1)>> /\ c = <<Real(1), Real(1)>>
    /\ layout \in Layouts(variant, n)
    /\ map = <<>>
    /\ x = Uninitialized.x /\ y = Uninitialized.y /\ z = Uninitialized.z
    /\ entry = Uninitialized
    /\ Workspace
    /\ overload \in [fn : EntryPoints, dist : BOOLEAN, withD : BOOLEAN,
                     promote : BOOLEAN]
    /\ regCtrl \in {k \in RegSolveCtrlSet :
                       k.relTol = Rat(1, 4) /\ k.relTolRefine = Rat(1, 8)}
    /\ B \in RefineRhsSet
    /\ at = overload.fn
    /\ calls = <<>>
    /\ preconds = 0
    /\ reported = NoInfo
    /\ info = NoInfo
    /\ status = "RUNNING"
    /\ regDiag \in RegSet
    /\ dDiag \in (IF overload.withD THEN DSet ELSE {<<>>})
    /\ \E E \in FactErrorSet : sparseLDLFact = FactoredWith(E)
    /\ XIter = Zeros(Len(B))
    /\ IndexingIdle /\ AEDIdle

\* a step of the Krylov method
RefinePrecondition ==
    /\ ~KrylovMet(XIter)
    /\ PreconditionWith(KrylovStep(XIter))

\* the Krylov method ends: the tolerance is met or the steps are used up
RefineKrylovReport ==
    /\ KrylovMet(XIter) \/ preconds = MaxPrecond
    /\ KrylovReportWith({KrylovOutcome(XIter)})

\* RegularizedSolveAfter called directly
RefineRegularizedSolveAfter ==
    RegularizedSolveAfterWith(
        {RefinedSolve(B, regCtrl.relTolRefine, regCtrl.maxRefineIts)})

RefineNext ==
    \/ Dispatch
    \/ InvalidAlgorithm
    \/ KrylovSolveAfter
    \/ RefinePrecondition
    \/ RefineKrylovReport
    \/ RefineRegularizedSolveAfter
    \/ ReturnInfo

\* the solve layer with the systems solved
RefineSpec == RefineInit /\ [][RefineNext]_vars

(***************************************************************************)
(* Local lengths of a cyclically or block-cyclically distributed range     *)
(***************************************************************************)
\* the largest n, stride and block size a call is made with
MaxN == 8

MaxStride == 3

MaxBsize == 3

\* a % b of the language: the remainder of the division that rounds to zero
CRem(k, modulus) == IF k >= 0 THEN k % modulus ELSE -((-k) % modulus)

\* const Int rem = a % b; return ( rem >= 0 ? rem : rem+b );
Mod_(k, modulus) ==
    LET rem == CRem(k, modulus)
    IN  IF rem >= 0 THEN rem ELSE rem + modulus

\* a length that rounds the quotient of n - shift down
Length_RoundingDown(len, shift, stride) ==
    IF len > shift THEN (len - shift) \div stride ELSE 0

\* return ( n > shift ? (n - shift - 1)/stride + 1 : 0 );
Length_(len, shift, stride) ==
    IF len > shift THEN (len - shift - 1) \div stride + 1 ELSE 0

\* return ( n>0 ? (n-1)/stride + 1 : 0 );
MaxLength_(len, stride) ==
    IF len > 0 THEN (len - 1) \div stride + 1 ELSE 0

\* the first block, the middle blocks and the last block in turn, with n
\* and shift updated between them
BlockedLength_(len, shift, bsize, cut, stride) ==
    LET firstLeftover == IF bsize - cut < len THEN bsize - cut ELSE len
        length1 == IF shift = 0 THEN firstLeftover ELSE 0
        n1      == len - firstLeftover
        shift1  == Mod_(shift - 1, stride)
        nBlock  == n1 \div bsize
        lengthBlock == Length_(nBlock, shift1, stride)
        length2 == length1 + lengthBlock * bsize
        n2      == n1 - nBlock * bsize
        shift2  == Mod_(shift1 - nBlock, stride)
    IN  IF shift2 = 0 THEN length2 + n2 ELSE length2

\* n >= 0, stride >= 1, bsize >= 1 and 0 <= cut < bsize
IndexArgsSet ==
    {a \in [n : 0 .. MaxN, stride : 1 .. MaxStride, bsize : 1 .. MaxBsize,
            cut : 0 .. MaxBsize - 1] : a.cut < a.bsize}

IndexInit ==
    /\ DriverIdle /\ SolveIdle /\ NoRegData /\ AEDIdle
    /\ indexArgs \in IndexArgsSet
    /\ indexFn = "none"
    /\ lengths = <<>>

\* Length_( n, shift, stride ) for every shift of the stride
Length ==
    /\ indexArgs # <<>>
    /\ indexFn # "Length"
    /\ indexFn' = "Length"
    /\ lengths' = [s \in 1 .. indexArgs.stride |->
                      Length_(indexArgs.n, s - 1, indexArgs.stride)]
    /\ UNCHANGED <<Driver, SolveLayer, RegData, AEDCall, indexArgs>>

\* MaxLength_( n, stride )
MaxLength ==
    /\ indexArgs # <<>>
    /\ indexFn # "MaxLength"
    /\ indexFn' = "MaxLength"
    /\ lengths' = <<MaxLength_(indexArgs.n, indexArgs.stride)>>
    /\ UNCHANGED <<Driver, SolveLayer, RegData, AEDCall, indexArgs>>

\* BlockedLength_( n, shift, bsize, cut, stride ) for every shift of the stride
BlockedLength ==
    /\ indexArgs # <<>>
    /\ indexFn # "BlockedLength"
    /\ indexFn' = "BlockedLength"
    /\ lengths' = [s \in 1 .. indexArgs.stride |->
                      BlockedLength_(indexArgs.n, s - 1, indexArgs.bsize,
                                     indexArgs.cut, indexArgs.stride)]
    /\ UNCHANGED <<Driver, SolveLayer, RegData, AEDCall, indexArgs>>

IndexNext ==
    \/ Length
    \/ MaxLength
    \/ BlockedLength

IndexSpec == IndexInit /\ [][IndexNext]_vars

(***************************************************************************)
(* hess_qr::AED: the iteration over the deflation windows.  The entries of *)
(* H decide where a window starts, whether the deflation window grows by   *)
(* one and how many eigenvalues aed::Nibble deflates; each is a choice.    *)
(***************************************************************************)
\* the widest window a call is made with
MaxWin == 2

\* ctrl.winBeg or ctrl.winEnd left at END
END == <<>>

IntMax(i, j) == IF i >= j THEN i ELSE j

IntMin(i, j) == IF i <= j THEN i ELSE j

\* Int(Log2(double(winSize)))
RECURSIVE ILog2(_)
ILog2(k) == IF k < 2 THEN 0 ELSE 1 + ILog2(k \div 2)

\* aed::NumShifts( n, winSize )
NumShifts(size, winSize) ==
    LET numShifts ==
            IF winSize < 30 THEN 2
            ELSE IF winSize < 60 THEN 4
            ELSE IF winSize < 150 THEN 10
            ELSE IF winSize < 590 THEN IntMax(10, winSize \div ILog2(winSize))
            ELSE IF winSize < 3000 THEN 64
            ELSE IF winSize < 6000 THEN 128
            ELSE IntMax(256, winSize \div (2 * ILog2(winSize)))
        capped == IntMin(IntMin(numShifts, winSize), (size + 6) \div 9)
    IN  IntMax(2, capped - Mod_(capped, 2))

\* aed::DeflationSize( n, winSize, numShifts )
DeflationSize(size, winSize, numShifts) ==
    LET rec    == IF winSize <= 500 THEN numShifts ELSE (3 * numShifts) \div 2
        capped == IntMin(IntMin(rec, winSize), (size - 1) \div 3)
    IN  IntMax(2, capped - Mod_(capped, 2))

\* aed::MinSize()
MinSize == 75

numStaleIterBeforeExceptional == 5

\* Int winBeg = ( ctrl.winBeg==END ? n : ctrl.winBeg ), and the same for winEnd
WinBound(e, size) == IF e = END THEN size ELSE e[1]

winBeg == WinBound(aedArgs.winBeg, aedArgs.n)

winSize == WinBound(aedArgs.winEnd, aedArgs.n) - winBeg

deflationSizeRec ==
    DeflationSize(aedArgs.n, winSize, NumShifts(aedArgs.n, winSize))

\* a cap that counts the window once
maxIterOfWindow == IntMax(10, winSize)

\* const Int maxIter = Max(30,2*numStaleIterBeforeExceptional) * Max(10,winSize);
maxIter == IntMax(30, 2 * numStaleIterBeforeExceptional) * IntMax(10, winSize)

\* H of order n with a window [winBeg, winEnd) inside it
AEDArgsSet ==
    {a \in [n : {MinSize - 1, MinSize},
            winBeg : {END} \cup {<<k>> : k \in MinSize - 1 - MaxWin .. MinSize - 1},
            winEnd : {END, <<MinSize - 1>>},
            demandConverged : BOOLEAN] :
        WinBound(a.winBeg, a.n) - WinBound(a.winEnd, a.n) <= 1}

NoAEDInfo == [numIterations |-> 0, numUnconverged |-> 0]

AEDInit ==
    /\ DriverIdle /\ SolveIdle /\ NoRegData /\ IndexingIdle
    /\ aedArgs \in AEDArgsSet
    /\ winEnd = 0
    /\ numIterSinceDeflation = 0
    /\ deflationSize = 0
    /\ decreaseLevel = 0
    /\ aedInfo = NoAEDInfo
    /\ aedAt = "AED"

\* if( n < minAEDSize ) return DoubleShift( H, w, Z, ctrl );
AEDTooSmall ==
    /\ aedAt = "AED"
    /\ aedArgs.n < MinSize
    /\ aedAt' = "DoubleShift"
    /\ UNCHANGED <<Driver, SolveLayer, RegData, Indexing, aedArgs, winEnd,
                   numIterSinceDeflation, deflationSize, decreaseLevel, aedInfo>>

\* the locals before the loop
AEDEnter ==
    /\ aedAt = "AED"
    /\ aedArgs.n >= MinSize
    /\ winEnd' = WinBound(aedArgs.winEnd, aedArgs.n)
    /\ deflationSize' = deflationSizeRec
    /\ numIterSinceDeflation' = 0
    /\ decreaseLevel' = -1
    /\ aedInfo' = NoAEDInfo
    /\ aedAt' = "while"
    /\ UNCHANGED <<Driver, SolveLayer, RegData, Indexing, aedArgs>>

\* the deflation window of an iteration over [iterBeg, winEnd), before the
\* exceptional decrease
DeflationWindow(iterWinSize, grows) ==
    LET chosen == IF numIterSinceDeflation < numStaleIterBeforeExceptional
                  THEN IntMin(iterWinSize, deflationSizeRec)
                  ELSE IntMin(iterWinSize, 2 * deflationSize)
    IN  IF chosen >= iterWinSize - 1 THEN iterWinSize
        ELSE IF grows THEN chosen + 1 ELSE chosen

\* decreaseLevel after the window is chosen
DecreaseLevel(iterWinSize, size) ==
    IF numIterSinceDeflation < numStaleIterBeforeExceptional THEN -1
    ELSE IF decreaseLevel >= 0 \/ size = iterWinSize
         THEN IF size - (decreaseLevel + 1) < 2 THEN 0 ELSE decreaseLevel + 1
         ELSE decreaseLevel

\* the deflation window handed to aed::Nibble
NibbleSize(iterWinSize, size) ==
    IF numIterSinceDeflation >= numStaleIterBeforeExceptional
       /\ (decreaseLevel >= 0 \/ size = iterWinSize)
    THEN size - DecreaseLevel(iterWinSize, size)
    ELSE size

\* if( info.numIterations >= maxIter ): RuntimeError or break
AEDGiveUp ==
    /\ aedAt = "while"
    /\ winBeg < winEnd
    /\ aedInfo.numIterations >= maxIter
    /\ aedAt' = IF aedArgs.demandConverged THEN "RuntimeError" ELSE "return"
    /\ UNCHANGED <<Driver, SolveLayer, RegData, Indexing, aedArgs, winEnd,
                   numIterSinceDeflation, deflationSize, decreaseLevel, aedInfo>>

\* deflateInfo.numDeflated of aed::Nibble on a deflation window of the given
\* size: some of its eigenvalues, none or all
NibbleDeflated(size) == 0 .. size

\* one pass of the loop body
AEDIterate ==
    /\ aedAt = "while"
    /\ winBeg < winEnd
    /\ aedInfo.numIterations < maxIter
    /\ \E iterBeg \in winBeg .. winEnd - 1, grows \in BOOLEAN :
         LET iterWinSize == winEnd - iterBeg
             size        == DeflationWindow(iterWinSize, grows)
             nibbled     == NibbleSize(iterWinSize, size)
         IN  \E numDeflated \in NibbleDeflated(nibbled) :
               /\ decreaseLevel' = DecreaseLevel(iterWinSize, size)
               /\ deflationSize' = nibbled
               /\ winEnd' = winEnd - numDeflated
               /\ aedInfo' = [aedInfo EXCEPT !.numIterations = @ + 1]
               /\ numIterSinceDeflation' =
                      IF numDeflated > 0 THEN 0 ELSE numIterSinceDeflation + 1
    /\ UNCHANGED <<Driver, SolveLayer, RegData, Indexing, aedArgs, aedAt>>

\* the loop condition fails
AEDLoopEnd ==
    /\ aedAt = "while"
    /\ ~(winBeg < winEnd)
    /\ aedAt' = "return"
    /\ UNCHANGED <<Driver, SolveLayer, RegData, Indexing, aedArgs, winEnd,
                   numIterSinceDeflation, deflationSize, decreaseLevel, aedInfo>>

\* info.numUnconverged = winEnd-winBeg; return info;
AEDReturn ==
    /\ aedAt = "return"
    /\ aedInfo' = [aedInfo EXCEPT !.numUnconverged = winEnd - winBeg]
    /\ aedAt' = "returned"
    /\ UNCHANGED <<Driver, SolveLayer, RegData, Indexing, aedArgs, winEnd,
                   numIterSinceDeflation, deflationSize, decreaseLevel>>

AEDNext ==
    \/ AEDTooSmall
    \/ AEDEnter
    \/ AEDGiveUp
    \/ AEDIterate
    \/ AEDLoopEnd
    \/ AEDReturn

AEDSpec == AEDInit /\ [][AEDNext]_vars

(***************************************************************************)
(* Properties                                                              *)
(***************************************************************************)
AllPositive(v) == \A i \in DOMAIN v : v[i][1] > 0

HasNegative(d) == \E i \in DOMAIN d : d[i][1] < 0

IsPrefix(s, t) == Len(s) <= Len(t) /\ \A i \in 1 .. Len(s) : s[i] = t[i]

\* every process stands between the same two updates
AllAfterUpdate ==
    \A p, q \in Procs :
        updates[p] >= 1 /\ updates[p] = updates[q] /\ pc[p] \in {"top", "done"}

AllBeforeUpdate == \A p \in Procs : pc[p] = "update"

\* C1 as stated: whatever the control values, the iterate is strictly
\* positive again after every update.
C1_PositiveAfterUpdate ==
    AllAfterUpdate => AllPositive(x) /\ AllPositive(z)

\* C1, amended: with 0 < maxStepRatio < 1 the iterate is strictly positive
\* after every update, for every direction the solves return, so the cone
\* check can fail in the first pass only.
C1_PositiveAfterUpdateBelowOne ==
    RLt(Real(0), ctrl.maxStepRatio) /\ RLt(ctrl.maxStepRatio, Real(1))
        => /\ C1_PositiveAfterUpdate
           /\ \A p \in Procs : outcome[p] = "INFEASIBLE_ITERATE" => passes[p] = 1

\* an update whose primal step was limited by a decreasing entry of x
C1_Witness ==
    /\ RLt(ctrl.maxStepRatio, Real(1))
    /\ AllAfterUpdate
    /\ HasNegative(dx) /\ HasNegative(dz)
    /\ \E p \in Procs : RLt(alpha[p].pri, Real(1))
    /\ AllPositive(x) /\ AllPositive(z)

\* the three measures of the convergence test, written out for the iterate
C2_GapMet ==
    LET primal == Dot(c, x)
        dual   == RNeg(Dot(b, y))
    IN  RLe(RAbs(RSub(primal, dual)), RMul(ctrl.tol, RAdd(Real(1), RAbs(primal))))

C2_PrimalMet ==
    RelNrm2Le([j \in 1 .. m |-> RSub(Dot(A[j], x), b[j])], b, ctrl.tol)

C2_DualMet ==
    RelNrm2Le([i \in 1 .. n |->
                  RAdd(RSub(SumTo([j \in 1 .. m |-> RMul(A[j][i], y[j])], m), z[i]),
                       c[i])],
              c, ctrl.tol)

\* a process that has left the loop holds the iterate its last pass tested
Left(p) == pc[p] = "done" /\ outcome[p] # "NOT_SUPPORTED"

\* C2: a pass through the loop head returns normally exactly when x and z are
\* strictly positive and the duality gap, the primal residual and the dual
\* residual are all within ctrl.tol.
C2_ReturnsIffConverged ==
    \A p \in Procs :
        Left(p) =>
            (outcome[p] = "CONVERGED"
                <=> /\ AllPositive(x) /\ AllPositive(z)
                    /\ C2_GapMet /\ C2_PrimalMet /\ C2_DualMet)

\* a normal return
C2_Witness ==
    \E p \in Procs : Left(p) /\ outcome[p] = "CONVERGED" /\ C2_GapMet /\ C2_DualMet

\* C3 as stated: for every integer maxIts (a negative one counting as 0
\* updates allowed) no more than maxIts updates are applied, and a pass that
\* fails the convergence test with numIts >= maxIts does not continue.
C3_IterationCap ==
    \A p \in Procs :
        /\ updates[p] <= (IF ctrl.maxIts < 0 THEN 0 ELSE ctrl.maxIts)
        /\ passes[p] >= 1 /\ outcome[p] = "ITERATING" => passes[p] - 1 < ctrl.maxIts

\* C5 as stated: a call of a looping variant makes at most maxIts + 1 passes
\* through the loop head (one pass at least) and leaves in one of the three
\* terminal outcomes.
C5_Terminates ==
    \A p \in Procs :
        variant # "SeqSparse" =>
            /\ passes[p] <= (IF ctrl.maxIts < 0 THEN 0 ELSE ctrl.maxIts) + 1
            /\ pc[p] = "done" =>
                  outcome[p] \in {"CONVERGED", "MAX_ITERS_EXCEEDED", "INFEASIBLE_ITERATE"}

\* C4: a pass through the loop head that finds an entry of x or z <= 0 ends
\* the call with LogicError, having executed the two counts only, whatever the
\* convergence measures and the iteration cap say, and leaves x, y, z as they
\* were.
C4_ConeCheckFirst ==
    [][\A p \in Procs :
          /\ pc[p] = "top" /\ pc'[p] # "top"
          /\ \E i \in 1 .. n : x[i][1] <= 0 \/ z[i][1] <= 0
          => /\ pc'[p] = "done"
             /\ outcome'[p] = "INFEASIBLE_ITERATE"
             /\ ops'[p] = ops[p] \o <<"NumNonPositive(x)", "NumNonPositive(z)">>
             /\ x' = x /\ y' = y /\ z' = z]_vars

\* a caller's iterate with a zero entry that meets all three tolerances, in a
\* call with maxIts = 0, ended by the cone check
C4_Witness ==
    \E p \in Procs :
        /\ outcome[p] = "INFEASIBLE_ITERATE" /\ passes[p] = 1
        /\ ctrl.initialized /\ ctrl.maxIts = 0
        /\ \E i \in 1 .. n : x[i][1] = 0
        /\ \A i \in 1 .. n : x[i][1] >= 0 /\ z[i][1] >= 0
        /\ C2_GapMet /\ C2_PrimalMet /\ C2_DualMet
        /\ x = entry.x /\ y = entry.y /\ z = entry.z

\* the final step lengths the processes are about to apply
C6_alphaPri == FinalStep(AllReduceMin("pri"))

C6_alphaDual == FinalStep(AllReduceMin("dual"))

StaysNonNegative(v, a, d) ==
    \A i \in DOMAIN v : RLe(Real(0), RAdd(v[i], RMul(a, d[i])))

\* C6 as stated: for every maxStepRatio, a direction with a negative entry
\* gets a step length <= 1 that keeps every entry >= 0.
C6_StepStaysInside ==
    AllBeforeUpdate =>
        /\ HasNegative(dx) =>
              RLe(C6_alphaPri, Real(1)) /\ StaysNonNegative(x, C6_alphaPri, dx)
        /\ HasNegative(dz) =>
              RLe(C6_alphaDual, Real(1)) /\ StaysNonNegative(z, C6_alphaDual, dz)

\* C6, amended: the same for 0 < maxStepRatio <= 1.
C6_StepStaysInsideUpToOne ==
    RLt(Real(0), ctrl.maxStepRatio) /\ RLe(ctrl.maxStepRatio, Real(1))
        => C6_StepStaysInside

\* maxStepRatio = 1 and a step that takes an entry of x exactly to zero
C6_Witness ==
    /\ AllBeforeUpdate
    /\ ctrl.maxStepRatio = Real(1)
    /\ \E i \in 1 .. n :
          dx[i][1] < 0 /\ RAdd(x[i], RMul(C6_alphaPri, dx[i])) = Real(0)
    /\ \E i \in 1 .. n : dz[i][1] < 0

\* C7: the sequential sparse overload does nothing but fail: no
\* initialization, no pass through the loop, x, y and z as passed.
C7_FailsFast ==
    variant = "SeqSparse" =>
        \A p \in Procs :
            /\ pc[p] \in {"call", "done"}
            /\ pc[p] = "done" => outcome[p] = "NOT_SUPPORTED"
            /\ passes[p] = 0 /\ updates[p] = 0 /\ ops[p] = <<>>
            /\ solved = <<0, 0, 0>>
            /\ x = entry.x /\ y = entry.y /\ z = entry.z

C7_Witness ==
    /\ variant = "SeqSparse" /\ ~ctrl.initialized
    /\ \A p \in Procs : pc[p] = "done" /\ outcome[p] = "NOT_SUPPORTED"

\* C8: of any two processes, the collective operations one has executed are
\* the first ones the other has executed or will execute.
C8_SameCollectives ==
    \A p, q \in Procs : IsPrefix(ops[p], ops[q]) \/ IsPrefix(ops[q], ops[p])

\* a process without local entries and one with a decreasing local entry,
\* after an update, with the same operations behind them
C8_Witness ==
    /\ Distributed(variant)
    /\ \E p, q \in Procs :
          /\ LoopEntries(p) = {}
          /\ \E i \in LoopEntries(q) : dx[i][1] < 0
          /\ updates[p] >= 1 /\ updates[q] >= 1
          /\ ops[p] = ops[q]

\* C9: processes that have made the same number of passes through the loop
\* head left the last one the same way, and a process that has left the loop
\* is a pass ahead of any that has not.
C9_SameDecision ==
    \A p, q \in Procs :
        /\ passes[p] = passes[q] => outcome[p] = outcome[q]
        /\ pc[p] = "done" /\ pc[q] # "done" => passes[q] < passes[p]

\* all processes ended by the cone check although one of them owns no
\* non-positive entry
C9_Witness ==
    /\ Distributed(variant)
    /\ \A p \in Procs : pc[p] = "done" /\ outcome[p] = "INFEASIBLE_ITERATE"
    /\ \E p \in Procs :
          Owned(p) # {} /\ \A i \in Owned(p) : x[i][1] > 0 /\ z[i][1] > 0

\* C10: A, b and c never change; x, y and z change only in the optional
\* initialization and in the update step, which each process takes once per
\* completed iteration.
C10_Frame ==
    [][/\ A' = A /\ b' = b /\ c' = c
       /\ <<x, y, z>>' # <<x, y, z>> =>
             \E p \in Procs :
                 \/ pc[p] = "update" /\ updates'[p] = updates[p] + 1
                 \/ pc[p] = "call" /\ ~ctrl.initialized /\ solved[1] = 0
       /\ \A p \in Procs : updates'[p] = numIts'[p]]_vars

\* dx holds the scratch value x + alphaAffPri dxAff, x is what the caller passed
C10_Witness ==
    \E p \in Procs :
        /\ pc[p] = "corrector" /\ numIts[p] = 0 /\ ctrl.initialized
        /\ \E i \in Owned(p) : dx[i] # x[i]
        /\ x = entry.x /\ y = entry.y /\ z = entry.z

\* C11: RegularizedSolveAfter, LGMRESSolveAfter and FGMRESSolveAfter never end
\* with an error, and the RegSolveInfo they return holds the numIts, relTol
\* and metRequestedTol the inner solver reported, also when it reported that
\* the tolerance was not met.
C11_StatusNotError ==
    overload.fn \in {"RegularizedSolveAfter", "LGMRESSolveAfter", "FGMRESSolveAfter"}
        => /\ status \in {"RUNNING", "RETURNED"}
           /\ at = "done"
                 => /\ status = "RETURNED"
                    /\ info.numIts = reported.numIts
                    /\ info.relTol = reported.relTol
                    /\ info.metRequestedTol = reported.metRequestedTol

\* a distributed Krylov wrapper with d returns although the method did not
\* meet the tolerance
C11_Witness ==
    /\ overload.fn \in {"LGMRESSolveAfter", "FGMRESSolveAfter"}
    /\ overload.dist /\ overload.withD
    /\ at = "done" /\ status = "RETURNED"
    /\ ~reported.metRequestedTol /\ ~info.metRequestedTol
    /\ reported.numIts > 0

C12_Expected(fn) ==
    [fn |-> fn, withD |-> overload.withD,
     relTol |-> regCtrl.relTol, restart |-> regCtrl.restart,
     maxIts |-> regCtrl.maxIts, relTolRefine |-> regCtrl.relTolRefine,
     maxRefineIts |-> regCtrl.maxRefineIts]

\* C12: SolveAfter calls FGMRESSolveAfter for REG_SOLVE_FGMRES and
\* LGMRESSolveAfter for REG_SOLVE_LGMRES, each field of ctrl in its role, in
\* every overload; for any other ctrl.alg it ends with LogicError, having
\* called nothing and left B as it was.
C12_Dispatch ==
    overload.fn = "SolveAfter" /\ at # "SolveAfter"
        => /\ regCtrl.alg = "REG_SOLVE_FGMRES"
                 => calls[1] = C12_Expected("FGMRESSolveAfter")
           /\ regCtrl.alg = "REG_SOLVE_LGMRES"
                 => calls[1] = C12_Expected("LGMRESSolveAfter")
           /\ regCtrl.alg \notin {"REG_SOLVE_FGMRES", "REG_SOLVE_LGMRES"}
                 => /\ at = "done" /\ status = "LOGIC_ERROR"
                    /\ calls = <<>> /\ B \in RhsSet /\ info = NoInfo

\* a distributed call with d and LGMRES whose outer and refinement
\* tolerances and iteration limits differ
C12_Witness ==
    /\ overload.fn = "SolveAfter" /\ overload.dist /\ overload.withD
    /\ regCtrl.alg = "REG_SOLVE_LGMRES"
    /\ regCtrl.relTol # regCtrl.relTolRefine
    /\ regCtrl.maxIts # regCtrl.maxRefineIts /\ regCtrl.restart # regCtrl.maxIts
    /\ at = "done" /\ status = "RETURNED"
    /\ calls[1].fn = "LGMRESSolveAfter"


\* ---- C15: the order of the three tests at the top of the loop ----

\* C15: a process that leaves the top of the loop with an iterate meeting
\* all three tolerances returns: normally when the iterate is positive, even
\* with numIts = maxIts (maxIts = 0 included), and with the cone error when
\* x or z has a non-positive entry; it never raises the iteration-cap error
\* and never starts another iteration.
C15_ConvergenceBeforeCap ==
    [][\A p \in Procs :
          (/\ pc[p] = "top" /\ pc'[p] # "top"
           /\ outcome[p] # "NOT_SUPPORTED" /\ outcome'[p] # "NOT_SUPPORTED"
           /\ C2_GapMet /\ C2_PrimalMet /\ C2_DualMet)
          => /\ pc'[p] = "done"
             /\ outcome'[p] = IF AllPositive(x) /\ AllPositive(z)
                              THEN "CONVERGED" ELSE "INFEASIBLE_ITERATE"]_vars

\* a converged return with numIts = maxIts
C15_Witness ==
    \E p \in Procs :
        /\ pc[p] = "done" /\ outcome[p] = "CONVERGED"
        /\ numIts[p] = ctrl.maxIts
        /\ C2_GapMet /\ C2_PrimalMet /\ C2_DualMet

\* ---- C16: the affine step lengths ----

\* min(1, min over d_i < 0 of -v_i/d_i)
C16_RatioTest(v, d) ==
    LET R == {Real(1)} \cup
             {RDiv(RNeg(v[i]), d[i]) : i \in {j \in DOMAIN v : d[j][1] < 0}}
    IN  CHOOSE a \in R : \A r \in R : RLe(a, r)

\* a is the largest step in [0,1] that keeps v + a*d >= 0
C16_LargestFeasible(a, v, d) ==
    /\ RLt(Real(0), a) /\ RLe(a, Real(1))
    /\ StaysNonNegative(v, a, d)
    /\ RLt(a, Real(1)) =>
          \E i \in DOMAIN v :
              d[i][1] < 0 /\ RAdd(v[i], RMul(a, d[i])) = Real(0)
    /\ ~HasNegative(d) => a = Real(1)

\* C16: once the affine step lengths are reduced, alphaAffPri is
\* min(1, min over dxAff_i < 0 of -x_i/dxAff_i): it lies in (0,1], keeps
\* x + alpha*dxAff >= 0, is blocked by an entry reaching zero when below 1
\* (so no larger step in [0,1] is feasible), and is 1 when dxAff has no
\* negative entry; the same for alphaAffDual with z and dzAff.
C16_AffineStepLength ==
    \A p \in Procs :
        pc[p] = "corrector" =>
            /\ alpha[p].affPri = C16_RatioTest(x, dxAff)
            /\ C16_LargestFeasible(alpha[p].affPri, x, dxAff)
            /\ alpha[p].affDual = C16_RatioTest(z, dzAff)
            /\ C16_LargestFeasible(alpha[p].affDual, z, dzAff)

\* an affine step cut below 1 by the ratio test
C16_Witness ==
    \E p \in Procs :
        /\ pc[p] = "corrector"
        /\ HasNegative(dzAff) /\ RLt(alpha[p].affDual, Real(1))
        /\ HasNegative(dxAff)

\* ---- C17: the final step lengths ----

\* min(1, r * min(1/r, min over d_i < 0 of -v_i/d_i))
C17_Damped(v, d) ==
    LET r  == ctrl.maxStepRatio
        R  == {RDiv(Real(1), r)} \cup
              {RDiv(RNeg(v[i]), d[i]) : i \in {j \in DOMAIN v : d[j][1] < 0}}
        lo == CHOOSE a \in R : \A q \in R : RLe(a, q)
        ra == RMul(r, lo)
    IN  IF RLe(ra, Real(1)) THEN ra ELSE Real(1)

C17_BelowDampedRatios(a, v, d) ==
    \A i \in DOMAIN v :
        d[i][1] < 0 =>
            RLe(a, RMul(ctrl.maxStepRatio, RDiv(RNeg(v[i]), d[i])))

\* C17: the step lengths of the update are
\* min(1, maxStepRatio * min(1/maxStepRatio, min ratio)): alphaPri is at most
\* maxStepRatio * (-x_i/dx_i) for every dx_i < 0, alphaDual at most
\* maxStepRatio * (-z_i/dz_i) for every dz_i < 0.
C17_FinalStepLength ==
    [][\A p \in Procs :
          (AllBeforeUpdate /\ pc'[p] = "top")
          => /\ alpha'[p].pri = C17_Damped(x, dx)
             /\ C17_BelowDampedRatios(alpha'[p].pri, x, dx)
             /\ alpha'[p].dual = C17_Damped(z, dz)
             /\ C17_BelowDampedRatios(alpha'[p].dual, z, dz)]_vars

\* an update whose primal step was cut by the damped ratio test
C17_Witness ==
    \E p \in Procs :
        /\ pc[p] = "top" /\ updates[p] >= 1
        /\ HasNegative(dx)
        /\ RLt(alpha[p].pri, Real(1))
        /\ ctrl.maxStepRatio # Real(1)

\* ---- C18: the update of the iterate ----

\* C18: the update sets x to x + alphaPri*dx, y to y + alphaDual*dy and z to
\* z + alphaDual*dz on the entries the process holds, and nothing else: the
\* primal step length scales only dx, the dual one dy and dz.
C18_UpdateRule ==
    [][\A p \in Procs :
          (pc[p] = "update" /\ pc'[p] = "top")
          => /\ \A i \in 1 .. n :
                   /\ x'[i] = IF i \in Owned(p)
                              THEN RAdd(x[i], RMul(alpha'[p].pri, dx[i]))
                              ELSE x[i]
                   /\ z'[i] = IF i \in Owned(p)
                              THEN RAdd(z[i], RMul(alpha'[p].dual, dz[i]))
                              ELSE z[i]
             /\ \A j \in 1 .. m :
                   y'[j] = IF j \in OwnedY(p)
                           THEN RAdd(y[j], RMul(alpha'[p].dual, dy[j]))
                           ELSE y[j]
             /\ dx' = dx /\ dy' = dy /\ dz' = dz]_vars

\* an update with different primal and dual step lengths and dy # 0
C18_Witness ==
    \E p \in Procs :
        /\ pc[p] = "top" /\ updates[p] >= 1
        /\ alpha[p].pri # alpha[p].dual
        /\ \E j \in OwnedY(p) : dy[j] # Real(0)

\* ---- C19: one factorization per iteration ----

C19_Factorizations == {"LDL", "RegularizedLDL"}

C19_Builders == {"KKT", "AugmentedKKT", "NormalKKT"}

C19_Solves == {"ldl::SolveAfter", "SolveWithIterativeRefinement", "Solve"}

\* the positions in the log of the calls named
C19_At(log, names) == {k \in DOMAIN log : log[k] \in names}

\* C19: every iteration builds and factors J exactly once, in the affine
\* step, and solves with it twice: in the log of each process the number of
\* builds and of factorizations is the number of iterations entered, every
\* factorization is followed by a solve before the next build or
\* factorization, and a process about to take or having taken the corrector
\* step has built and factored nothing since the affine solve.
C19_OneFactorization ==
    \A p \in Procs :
        outcome[p] # "NOT_SUPPORTED" =>
            LET log == ops[p]
                F == C19_At(log, C19_Factorizations)
                K == C19_At(log, C19_Builders)
                S == C19_At(log, C19_Solves)
                solves == CASE pc[p] \in {"centering", "corrector"} -> 1
                            [] pc[p] = "update" -> 2
                            [] OTHER -> 0
                entered == updates[p] +
                           IF pc[p] \in {"centering", "corrector", "update"}
                           THEN 1 ELSE 0
            IN  /\ Cardinality(F) = entered
                /\ Cardinality(K) = entered
                /\ Cardinality(S) = 2 * updates[p] + solves
                /\ \A s \in S :
                      \E f \in F :
                          /\ f < s
                          /\ Cardinality({t \in S : f < t /\ t <= s}) <= 2
                          /\ \A g \in F \cup K : g <= f \/ g > s

\* a process after the corrector solve of an iteration
C19_Witness ==
    \E p \in Procs :
        /\ pc[p] = "update"
        /\ Cardinality(C19_At(ops[p], C19_Solves)) = 2
        /\ Cardinality(C19_At(ops[p], C19_Factorizations)) = 1

\* ---- C20: the right-hand side of the corrector and the direction ----

\* C20: for the corrector solve rb and rc are zero vectors of length m and
\* n and rmu_i = dxAff_i*dzAff_i - sigma*mu, with mu = (x . z)/n and
\* sigma = (muAff/mu)^3; the direction of the final step and of the update
\* is the corrector solution plus the affine direction.
C20_CorrectorSystem ==
    \A p \in Procs :
        /\ pc[p] \in {"corrector", "update"} =>
              /\ rb = [j \in 1 .. m |-> Real(0)]
              /\ rc = [i \in 1 .. n |-> Real(0)]
              /\ LET q == RDiv(muAff, mu)
                     sigma == RMul(RMul(q, q), q)
                 IN  \A i \in 1 .. n :
                         rmu[i] = RSub(RMul(dxAff[i], dzAff[i]), RMul(sigma, mu))
        /\ pc[p] = "corrector" => mu = RDiv(Dot(x, z), Real(n))
        /\ pc[p] = "update" =>
              \E d \in CorrSet :
                  /\ dx = [i \in 1 .. n |-> RAdd(d.dx[i], dxAff[i])]
                  /\ dy = [j \in 1 .. m |-> RAdd(d.dy[j], dyAff[j])]
                  /\ dz = [i \in 1 .. n |-> RAdd(d.dz[i], dzAff[i])]

\* a combined direction that differs from both of its summands
C20_Witness ==
    \E p \in Procs :
        /\ pc[p] = "update"
        /\ dx # dxAff /\ rmu # Zeros(n)
        /\ muAff # Real(0)

\* ---- C13: the three formulations give the same directions ----

\* the direction formulation sys gives, under every ordering of its J, is d
C13_Yields(sys, r_c, r_b, r_mu, d) ==
    \A o \in OrderSet(KKTSize(sys)) : KKTSolve(sys, o, r_c, r_b, r_mu) = d

\* C13: from the same iterate FULL_KKT, AUGMENTED_KKT and NORMAL_KKT yield
\* the same affine direction and the same combined direction, so that the
\* runs under the three values of ctrl.system pass through the same
\* iterates.
C13_SameDirections ==
    /\ (\A p \in Procs : pc[p] = "centering") =>
          \A sys \in Systems :
              C13_Yields(sys, rc, rb, rmu,
                         [dx |-> dxAff, dy |-> dyAff, dz |-> dzAff])
    /\ AllBeforeUpdate =>
          \A sys \in Systems :
              C13_Yields(sys, rc, rb, rmu,
                         [dx |-> Axpy(Real(-1), dxAff, dx),
                          dy |-> Axpy(Real(-1), dyAff, dy),
                          dz |-> Axpy(Real(-1), dzAff, dz)])

\* the same, for the variants that factor J with the dense LDL
C13_SameDirectionsDense ==
    variant # "DistSparse" => C13_SameDirections

(***************************************************************************)
(* The sanity checks after the affine solve                                *)
(***************************************************************************)
\* dzError = rmu, then updated by x o dzAff + z o dxAff
dzError == [i \in 1 .. n |->
               RAdd(rmu[i], RAdd(RMul(x[i], dzAff[i]), RMul(z[i], dxAff[i])))]

\* dyError = rc, then Gemv( TRANSPOSE, 1, A, dyAff, 1, dyError ) and
\* Axpy( -1, dzAff, dyError )
dyError == Axpy(Real(-1), dzAff, GemvT(A, dyAff, rc))

\* a check that subtracts the residual from A dxAff
dxErrorSubtracting == GemvN(A, dxAff, Scale(Real(-1), rb))

\* dxError = rb, then Gemv( NORMAL, 1, A, dxAff, 1, dxError )
dxError == GemvN(A, dxAff, rb)

\* ---- C21: the sanity checks vanish at the exact affine direction ----

\* every process has the affine direction and none has overwritten the
\* residuals with those of the corrector yet
C21_AfterAffineSolve == \A p \in Procs : pc[p] = "centering"

\* the affine direction is the exact solution of the affine KKT system
C21_ExactAffine ==
    [dx |-> dxAff, dy |-> dyAff, dz |-> dzAff]
        = ExpandSolution(m, n, LDLSolve(KKT(A, x, z), KKTRHS(rc, rb, rmu, z)))

\* C21 as stated: after the affine solve the quantities A dxAff - rb,
\* A^T dyAff - dzAff - rc and x o dzAff + z o dxAff - rmu are zero when the
\* affine direction is the exact solution of the affine KKT system.
C21_RoundTripSubtracting ==
    (C21_AfterAffineSolve /\ C21_ExactAffine) =>
        /\ GemvN(A, dxAff, Scale(Real(-1), rb)) = Zeros(m)
        /\ Axpy(Real(-1), dzAff, GemvT(A, dyAff, Scale(Real(-1), rc))) = Zeros(n)
        /\ \A i \in 1 .. n :
              RSub(RAdd(RMul(x[i], dzAff[i]), RMul(z[i], dxAff[i])), rmu[i])
                  = Real(0)

\* C21: after the affine solve the three quantities the sanity checks
\* evaluate, A dxAff + rb, A^T dyAff - dzAff + rc and
\* x o dzAff + z o dxAff + rmu, are zero when the affine direction is the
\* exact solution of the affine KKT system.
C21_RoundTrip ==
    (C21_AfterAffineSolve /\ C21_ExactAffine) =>
        /\ dxError = Zeros(m)
        /\ dyError = Zeros(n)
        /\ dzError = Zeros(n)

\* an exact affine direction at an iterate with nonzero rb, rc and rmu
C21_Witness ==
    /\ C21_AfterAffineSolve /\ C21_ExactAffine
    /\ rb # Zeros(m) /\ rc # Zeros(n) /\ rmu # Zeros(n)
    /\ dxAff # Zeros(n)

\* ---- C22: the distributed step lengths are the sequential ones ----

\* the loop of the sequential variant over all n entries
C22_Sequential(start, v, d) == StepLoop(start, v, d, 1 .. n, 1)

\* C22: for every distribution of the entries of x, z and of the directions
\* among the processes (processes without an entry included), the step
\* length a process holds after its local loop and the AllReduce with MIN is
\* what the loop of the sequential variant gives over all n entries, for the
\* affine and for the final step lengths, and is the same on all processes.
C22_SameStepLength ==
    /\ [][\A p \in Procs :
            /\ (pc[p] = "centering" /\ pc'[p] = "corrector") =>
                  /\ alpha'[p].affPri = C22_Sequential(Real(1), x, dxAff)
                  /\ alpha'[p].affDual = C22_Sequential(Real(1), z, dzAff)
            /\ (AllBeforeUpdate /\ pc'[p] = "top") =>
                  LET start == RDiv(Real(1), ctrl.maxStepRatio)
                  IN  /\ alpha'[p].pri = FinalStep(C22_Sequential(start, x, dx))
                      /\ alpha'[p].dual = FinalStep(C22_Sequential(start, z, dz))]_vars
    /\ [](\A p, q \in Procs :
            /\ (pc[p] = "corrector" /\ pc[q] = "corrector") =>
                  /\ alpha[p].affPri = alpha[q].affPri
                  /\ alpha[p].affDual = alpha[q].affDual
            /\ (updates[p] = 1 /\ updates[q] = 1) =>
                  /\ alpha[p].pri = alpha[q].pri
                  /\ alpha[p].dual = alpha[q].dual)

\* a process that owns no entry holds step lengths cut by entries of others
C22_Witness ==
    \E p \in Procs :
        /\ Distributed(variant) /\ LoopEntries(p) = {}
        /\ pc[p] = "top" /\ updates[p] = 1
        /\ RLt(alpha[p].affPri, Real(1)) /\ RLt(alpha[p].pri, Real(1))

\* ---- C23: one symbolic ordering per solve ----

\* the operations that fill map, invMap, sepTree and info of J:
\* NestedDissection, and Initialize when it is handed them (AUGMENTED_KKT;
\* otherwise it fills augMap, augInvMap, augSepTree and augInfo)
C23_Orders(op) ==
    \/ op = "NestedDissection"
    \/ op = "Initialize" /\ ctrl.system = "AUGMENTED_KKT"

\* C23: in the distributed sparse driver, for every ctrl.system and either
\* value of ctrl.initialized, the symbolic ordering of J is produced at most
\* once, a factorization is preceded by it, the numeric factorization is
\* refreshed in every iteration, and no iteration after the first produces an
\* ordering again.
C23_OrderingOnce ==
    \A p \in Procs :
        variant = "DistSparse" =>
            LET log == ops[p]
                O == {i \in DOMAIN log : C23_Orders(log[i])}
                F == C19_At(log, C19_Factorizations)
                entered == updates[p] +
                           IF pc[p] \in {"centering", "corrector", "update"}
                           THEN 1 ELSE 0
            IN  /\ Cardinality(O) <= 1
                /\ \A f \in F : \E o \in O : o < f
                /\ Cardinality(F) = entered

\* a second numeric factorization against the ordering Initialize produced
C23_Witness ==
    \E p \in Procs :
        /\ variant = "DistSparse"
        /\ ctrl.system = "AUGMENTED_KKT" /\ ~ctrl.initialized
        /\ Cardinality(C19_At(ops[p], C19_Factorizations)) = 2
        /\ Cardinality({i \in DOMAIN ops[p] : C23_Orders(ops[p][i])}) = 1

\* ---- C24: the solutions handed to the expansions ----

\* C24: in every iteration of the distributed sparse driver and for every
\* ctrl.system, the solve of the affine step and the solve of the corrector
\* step are carried out by SolveWithIterativeRefinement on the factored
\* system, never by a bare Solve with the factors.
C24_RefinedBeforeExpansion ==
    \A p \in Procs :
        variant = "DistSparse" =>
            \A i \in C19_At(ops[p], C19_Solves) :
                ops[p][i] = "SolveWithIterativeRefinement"

\* ---- C25: the outcome of the inner solves is not inspected ----

\* the stage that follows stage s of an iteration
C25_Following(s) ==
    CASE s = "centering" -> "corrector"
      [] s = "corrector" -> "update"
      [] OTHER -> "top"

\* the affine direction of the first iteration does not solve A dx = -rb
C25_AffineUnderConverged ==
    GemvN(A, dxAff, GemvN(A, entry.x, Scale(Real(-1), b))) # Zeros(m)

\* the corrector solution of the current iteration does not solve A dx = 0
C25_CorrectorUnderConverged ==
    GemvN(A, Axpy(Real(-1), dxAff, dx), Zeros(m)) # Zeros(m)

\* C25: whatever direction the affine solve and the corrector solve return,
\* a process that has solved goes on to the step lengths, the corrector and
\* the update: from each stage of an iteration its only step leads to the
\* following stage and leaves it iterating, the update is applied, and no
\* outcome other than those of the loop head exists.
C25_SolveOutcomeIgnored ==
    /\ [][\A p \in Procs :
            (pc[p] \in {"centering", "corrector", "update"} /\ pc'[p] # pc[p]) =>
                /\ pc'[p] = C25_Following(pc[p])
                /\ outcome'[p] = "ITERATING"
                /\ pc[p] = "update" => updates'[p] = updates[p] + 1]_vars
    /\ [](\A p \in Procs : outcome[p] \in
            {"ITERATING", "NOT_SUPPORTED", "INFEASIBLE_ITERATE", "CONVERGED",
             "MAX_ITERS_EXCEEDED"})

\* an update applied with an affine direction and a corrector solution that
\* both leave a residual
C25_Witness ==
    \E p \in Procs :
        /\ ctrl.initialized
        /\ pc[p] = "top" /\ updates[p] = 1
        /\ C25_AffineUnderConverged
        /\ C25_CorrectorUnderConverged
        /\ x # entry.x

\* the residual B - M V of the right-hand side B the call was given
C26_Residual(M, V) == Axpy(Real(-1), GemvN(M, V, Zeros(Len(V))), B) \o <<>>

\* a direct call of RegularizedSolveAfter that reports the tolerance met
C26_ReportsMet ==
    /\ at = "RegularizedSolveAfter"
    /\ at' = "copy"
    /\ reported'.metRequestedTol

\* C26 as stated: a solve by RegularizedSolveAfter that reports
\* metRequestedTol = true leaves a relative residual of at most relTol with
\* respect to A itself, reg left out
C26_MetForTrueMatrix ==
    [][C26_ReportsMet =>
          MetTol(MaxAbs(C26_Residual(A, B')), MaxAbs(B), regCtrl.relTolRefine)]_vars

\* C26: a solve by RegularizedSolveAfter that reports metRequestedTol = true
\* leaves a relative residual of at most relTol with respect to
\* A + diag(reg), the operator its refinement forms residuals with
C26_MetForRegularizedMatrix ==
    [][C26_ReportsMet =>
          MetTol(MaxAbs(C26_Residual(AddDiagonal(A, regDiag), B')), MaxAbs(B),
                 regCtrl.relTolRefine)]_vars

\* a direct call with a nonzero reg has met the tolerance after refining
C26_Witness ==
    /\ overload.fn = "RegularizedSolveAfter"
    /\ at = "copy"
    /\ regDiag # Zeros(Len(regDiag))
    /\ reported.metRequestedTol
    /\ reported.numIts > 0

\* the wrapper starts the Krylov method
C27_Starts == at \in {"FGMRESSolveAfter", "LGMRESSolveAfter"} /\ at' \in {"FGMRES", "LGMRES"}

\* the Krylov method applies its preconditioner
C27_Preconditions == preconds' = preconds + 1

\* the Krylov method returns to the wrapper
C27_Returns == at \in {"FGMRES", "LGMRES"} /\ at' = "copy"

\* C27: in FGMRESSolveAfter and LGMRESSolveAfter the Krylov method gets the
\* outer relTol, restart and maxIts and nothing of the refinement controls;
\* each application of the preconditioner is one call of RegularizedSolveAfter
\* (with d where the wrapper has d) with relTolRefine and maxRefineIts; and
\* the operator of the Krylov method is the true A, reg not added, so that
\* what it reports is the residual of the solution with respect to A
C27_KrylovWrappers ==
    [][/\ C27_Starts =>
            calls' = Append(calls, [fn |-> IF at = "FGMRESSolveAfter"
                                           THEN "FGMRES" ELSE "LGMRES",
                                    relTol |-> regCtrl.relTol,
                                    restart |-> regCtrl.restart,
                                    maxIts |-> regCtrl.maxIts])
       /\ C27_Preconditions =>
            /\ Len(calls') = Len(calls) + 2
            /\ calls'[Len(calls) + 1] =
                   [fn |-> "RegularizedSolveAfter", withD |-> overload.withD,
                    relTol |-> regCtrl.relTolRefine,
                    maxRefineIts |-> regCtrl.maxRefineIts]
            /\ calls'[Len(calls) + 2].fn \in {"RefinedSolve", "PromotedRefinedSolve"}
            /\ calls'[Len(calls) + 2].relTol = regCtrl.relTolRefine
            /\ calls'[Len(calls) + 2].maxRefineIts = regCtrl.maxRefineIts
       /\ C27_Returns =>
            /\ reported'.metRequestedTol =
                   MetTol(MaxAbs(C26_Residual(A, B')), MaxAbs(B), regCtrl.relTol)
            /\ reported'.relTol =
                   RelError(MaxAbs(C26_Residual(A, B')), MaxAbs(B))]_vars

\* a Krylov wrapper has returned after a step with a nonzero reg, and the
\* refinement controls differ from the outer ones
C27_Witness ==
    /\ at = "copy"
    /\ overload.fn \in {"FGMRESSolveAfter", "LGMRESSolveAfter"}
    /\ preconds > 0
    /\ regDiag # Zeros(Len(regDiag))
    /\ regCtrl.relTol # regCtrl.relTolRefine
    /\ regCtrl.maxIts # regCtrl.maxRefineIts
    /\ reported.metRequestedTol

\* a direct call of an overload that takes d, with the factorization exact
\* for the scaled operator diag(d) (A + diag(reg)) diag(d), returns
C28_ScaledExactCall ==
    /\ at = "RegularizedSolveAfter"
    /\ at' = "copy"
    /\ overload.withD
    /\ sparseLDLFact = FactoredWith(Zeros(Len(regDiag)))

\* C28: in the overloads that take d, when the factored solve is the exact
\* inverse of the scaled operator, the approximate inverse (DiagonalSolve by
\* d, factored solve, DiagonalSolve by d) is the exact inverse of applyA:
\* the first solve is the solution, no correction is made and the tolerance
\* is reported met
C28_ScaledInverseExact ==
    [][C28_ScaledExactCall =>
          /\ applyAInv(applyA(B)) = B
          /\ applyA(B') = B
          /\ reported'.numIts = 0
          /\ reported'.metRequestedTol]_vars

RECURSIVE C29_Sum(_, _)
C29_Sum(f, k) == IF k = 0 THEN 0 ELSE C29_Sum(f, k - 1) + f[k]

\* the number of indices of [0, n) that shift owns under the stride
C29_Owned(shift) ==
    Cardinality({i \in 0 .. indexArgs.n - 1 : i % indexArgs.stride = shift})

\* C29: Length_(n, shift, stride) is the number of indices i of [0, n) with
\* i mod stride = shift, so the values over the shifts sum to n;
\* MaxLength_(n, stride) is the largest of these numbers; and the values of
\* BlockedLength_(n, shift, bsize, cut, stride) over the shifts are
\* non-negative and sum to n
C29_LengthsPartition ==
    /\ indexFn = "Length" =>
          /\ \A s \in 0 .. indexArgs.stride - 1 : lengths[s + 1] = C29_Owned(s)
          /\ C29_Sum(lengths, indexArgs.stride) = indexArgs.n
    /\ indexFn = "MaxLength" =>
          /\ \E s \in 0 .. indexArgs.stride - 1 : lengths[1] = C29_Owned(s)
          /\ \A s \in 0 .. indexArgs.stride - 1 : lengths[1] >= C29_Owned(s)
    /\ indexFn = "BlockedLength" =>
          /\ \A s \in 1 .. indexArgs.stride : lengths[s] >= 0
          /\ C29_Sum(lengths, indexArgs.stride) = indexArgs.n

\* block-cyclic lengths of a range that has a cut first block, whole middle
\* blocks and a last partial block, over more than one owner
C29_Witness ==
    /\ indexFn = "BlockedLength"
    /\ indexArgs.stride > 1
    /\ indexArgs.cut > 0
    /\ indexArgs.bsize > 1
    /\ indexArgs.n > 2 * indexArgs.bsize
    /\ (indexArgs.n - (indexArgs.bsize - indexArgs.cut)) % indexArgs.bsize # 0
    /\ \E s \in 1 .. indexArgs.stride : lengths[s] # lengths[1]

\* Max(30, 10) * Max(10, winEnd - winBeg) of the window the call was given
C30_Cap == 30 * IntMax(10, winSize)

\* the loop is left with the window [winBeg, winEnd) not empty
C30_GivesUp ==
    /\ aedAt = "while"
    /\ aedAt' \in {"return", "RuntimeError"}
    /\ winBeg < winEnd

====
